---- MODULE Spec2Model ----
(***************************************************************************)
(* A model of the zasm toolchain: the instruction model (zasm.c), the      *)
(* decoder (zasmd.c), the assembler (zasmc.c) and the virtual machine      *)
(* (zasms.c).  Bytes are integers 0..255, characters are their ASCII       *)
(* codes, registers and operations are the values of the C enumerations.   *)
(***************************************************************************)
EXTENDS Integers, Sequences, FiniteSets, TLC

(***************************************************************************)
(* Integer helpers: the C operators on unsigned 8-bit values.              *)
(***************************************************************************)
RECURSIVE BitOr(_, _)
BitOr(a, b) ==
  IF a = 0 THEN b
  ELSE IF b = 0 THEN a
  ELSE (IF a % 2 = 1 \/ b % 2 = 1 THEN 1 ELSE 0) + 2 * BitOr(a \div 2, b \div 2)

RECURSIVE BitAnd(_, _)
BitAnd(a, b) ==
  IF a = 0 \/ b = 0 THEN 0
  ELSE (IF a % 2 = 1 /\ b % 2 = 1 THEN 1 ELSE 0) + 2 * BitAnd(a \div 2, b \div 2)

RECURSIVE Pow2(_)
Pow2(n) == IF n = 0 THEN 1 ELSE 2 * Pow2(n - 1)

Shl(a, n) == a * Pow2(n)

Shr(a, n) == a \div Pow2(n)

U8(x) == x % 256

(***************************************************************************)
(* zasm.h: operations, registers, instructions.                            *)
(***************************************************************************)
ZA_OP_MOV == 0
ZA_OP_LDI == 1
ZA_OP_JEZ == 2
ZA_OP_JNZ == 3
ZA_OP_JNI == 4
ZA_OP_HLT == 5
ZA_OP_RST == 6

ZA_REG_A == 0
ZA_REG_C == 1
ZA_REG_G == 2
ZA_REG_M == 3
ZA_REG_X == 4
ZA_REG_Y == 5
ZA_REG_N == 6
ZA_REG_P == 7
ZA_REG_B == 8
ZA_REG_J == 9
ZA_REG_L == 10
ZA_REG_S == 11
ZA_REG_D == 12
ZA_REG_Z == 13

\* ZA_Inst_T: the operation and the member of the argument union it uses.
MovInst(r1, r2) == [op |-> ZA_OP_MOV, r1 |-> r1, r2 |-> r2]

LdiInst(r, i) == [op |-> ZA_OP_LDI, r |-> r, i |-> i]

JmpInst(op, jmp) == [op |-> op, jmp |-> jmp]

JniInst(imm) == [op |-> ZA_OP_JNI, imm |-> imm]

NoArgInst(op) == [op |-> op]

\* zasmc.h: the error codes of the assembler.
ZC_ERR_OK == 0
ZC_ERR_OP == 1
ZC_ERR_REG == 2
ZC_ERR_IMM_BASE == 3
ZC_ERR_IMM_DIGIT == 4
ZC_ERR_IMM_LEN == 5
ZC_ERR_IMM_OVERFLOW == 6
ZC_ERR_INVAL_CHAR == 7
ZC_ERR_TOKEN_LEN == 8
ZC_ERR_LINE_LEN == 9
ZC_ERR_INST_FMT == 10
ZC_ERR_RO_REG == 11
ZC_ERR_STM == 12

(***************************************************************************)
(* zasm.c: the validity predicate.                                         *)
(***************************************************************************)
ZA_checkInst(inst) ==
  CASE inst.op = ZA_OP_MOV -> inst.r1 <= ZA_REG_N /\ inst.r2 <= ZA_REG_Z
    [] inst.op = ZA_OP_LDI -> inst.r <= ZA_REG_N
    [] inst.op \in {ZA_OP_JEZ, ZA_OP_JNZ} -> inst.jmp <= ZA_REG_Z
    [] inst.op \in {ZA_OP_JNI, ZA_OP_HLT, ZA_OP_RST} -> TRUE
    [] OTHER -> FALSE

(***************************************************************************)
(* zasmd.c: the decoder.                                                   *)
(***************************************************************************)
\* A decoder that takes the register of a LoadImmediate from the whole high
\* nibble, without masking the top bit away.
parseI_wideReg(code) ==
  IF Shr(code, 4) = 15
  THEN JniInst(BitAnd(code, 15))
  ELSE LdiInst(Shr(code, 4), BitAnd(code, 15))

parseI(code) ==
  IF Shr(code, 4) = 15
  THEN JniInst(BitAnd(code, 15))
  ELSE LdiInst(BitAnd(Shr(code, 4), 7), BitAnd(code, 15))

\* A decoder that takes the two nibbles of a Move the other way round.
parseM_swapped(code) ==
  IF Shr(code, 4) # 7
  THEN MovInst(BitAnd(code, 15), Shr(code, 4))
  ELSE JmpInst(ZA_OP_JNZ, BitAnd(code, 15))

\* A decoder that takes the high nibble 7 as a Move destination.
parseM_noJnz(code) == MovInst(Shr(code, 4), BitAnd(code, 15))

parseM(code) ==
  IF Shr(code, 4) # 7
  THEN MovInst(Shr(code, 4), BitAnd(code, 15))
  ELSE JmpInst(ZA_OP_JNZ, BitAnd(code, 15))

\* A decoder that reassembles the JumpIfZero register code with bit 0 as
\* the least significant bit instead of the most significant one.
ZD_parse_lowBit(code) ==
  IF Shr(code, 7) # 0 THEN parseI(code)
  ELSE IF BitAnd(code, 15) < 14 THEN parseM(code)
  ELSE IF code = 111 THEN NoArgInst(ZA_OP_HLT)
  ELSE IF code = 127 THEN NoArgInst(ZA_OP_RST)
  ELSE JmpInst(ZA_OP_JEZ, U8(BitOr(BitAnd(code, 1), Shl(Shr(code, 4), 1))))

ZD_parse(code) ==
  IF Shr(code, 7) # 0 THEN parseI(code)
  ELSE IF BitAnd(code, 15) < 14 THEN parseM(code)
  ELSE IF code = 111 THEN NoArgInst(ZA_OP_HLT)
  ELSE IF code = 127 THEN NoArgInst(ZA_OP_RST)
  ELSE JmpInst(ZA_OP_JEZ, U8(BitOr(Shl(BitAnd(code, 1), 3), Shr(code, 4))))

(***************************************************************************)
(* zasmc.c: the encoder.  The result is the byte, the error code and       *)
(* whether an assert of the function failed.                               *)
(***************************************************************************)
GenOk(code) == [code |-> code, err |-> ZC_ERR_OK, abort |-> FALSE]

GenErr == [code |-> 0, err |-> ZC_ERR_RO_REG, abort |-> FALSE]

GenAbort == [code |-> 0, err |-> ZC_ERR_OK, abort |-> TRUE]

\* An encoder that leaves the top bit of the register code out of a
\* JumpIfZero byte.
ZC_generate_noTopBit(inst) ==
  CASE inst.op = ZA_OP_MOV ->
         IF inst.r1 > ZA_REG_N THEN GenErr
         ELSE IF ~(inst.r2 <= ZA_REG_Z) THEN GenAbort
         ELSE GenOk(U8(BitOr(Shl(inst.r1, 4), inst.r2)))
    [] inst.op = ZA_OP_LDI ->
         IF inst.r > ZA_REG_N THEN GenErr
         ELSE GenOk(U8(BitOr(BitOr(128, Shl(inst.r, 4)), inst.i)))
    [] inst.op = ZA_OP_JEZ ->
         IF ~(inst.jmp <= ZA_REG_Z) THEN GenAbort
         ELSE GenOk(U8(BitOr(14, Shl(BitAnd(inst.jmp, 7), 4))))
    [] inst.op = ZA_OP_JNZ ->
         IF ~(inst.jmp <= ZA_REG_Z) THEN GenAbort
         ELSE GenOk(U8(BitOr(112, inst.jmp)))
    [] inst.op = ZA_OP_JNI -> GenOk(U8(BitOr(240, inst.imm)))
    [] inst.op = ZA_OP_HLT -> GenOk(111)
    [] inst.op = ZA_OP_RST -> GenOk(127)
    [] OTHER -> GenAbort

\* An encoder that also takes ProgramCounter as a destination.
ZC_generate_allowP(inst) ==
  CASE inst.op = ZA_OP_MOV ->
         IF inst.r1 > ZA_REG_P THEN GenErr
         ELSE IF ~(inst.r2 <= ZA_REG_Z) THEN GenAbort
         ELSE GenOk(U8(BitOr(Shl(inst.r1, 4), inst.r2)))
    [] inst.op = ZA_OP_LDI ->
         IF inst.r > ZA_REG_P THEN GenErr
         ELSE GenOk(U8(BitOr(BitOr(128, Shl(inst.r, 4)), inst.i)))
    [] inst.op = ZA_OP_JEZ ->
         IF ~(inst.jmp <= ZA_REG_Z) THEN GenAbort
         ELSE GenOk(U8(BitOr(BitOr(14, Shr(inst.jmp, 3)), Shl(BitAnd(inst.jmp, 7), 4))))
    [] inst.op = ZA_OP_JNZ ->
         IF ~(inst.jmp <= ZA_REG_Z) THEN GenAbort
         ELSE GenOk(U8(BitOr(112, inst.jmp)))
    [] inst.op = ZA_OP_JNI -> GenOk(U8(BitOr(240, inst.imm)))
    [] inst.op = ZA_OP_HLT -> GenOk(111)
    [] inst.op = ZA_OP_RST -> GenOk(127)
    [] OTHER -> GenAbort

ZC_generate(inst) ==
  CASE inst.op = ZA_OP_MOV ->
         IF inst.r1 > ZA_REG_N THEN GenErr
         ELSE IF ~(inst.r2 <= ZA_REG_Z) THEN GenAbort
         ELSE GenOk(U8(BitOr(Shl(inst.r1, 4), inst.r2)))
    [] inst.op = ZA_OP_LDI ->
         IF inst.r > ZA_REG_N THEN GenErr
         ELSE GenOk(U8(BitOr(BitOr(128, Shl(inst.r, 4)), inst.i)))
    [] inst.op = ZA_OP_JEZ ->
         IF ~(inst.jmp <= ZA_REG_Z) THEN GenAbort
         ELSE GenOk(U8(BitOr(BitOr(14, Shr(inst.jmp, 3)), Shl(BitAnd(inst.jmp, 7), 4))))
    [] inst.op = ZA_OP_JNZ ->
         IF ~(inst.jmp <= ZA_REG_Z) THEN GenAbort
         ELSE GenOk(U8(BitOr(112, inst.jmp)))
    [] inst.op = ZA_OP_JNI -> GenOk(U8(BitOr(240, inst.imm)))
    [] inst.op = ZA_OP_HLT -> GenOk(111)
    [] inst.op = ZA_OP_RST -> GenOk(127)
    [] OTHER -> GenAbort

(***************************************************************************)
(* Source text.  A character is its ASCII code; a text is a sequence of    *)
(* codes.  Ord and Text turn the letters written in this module into codes.*)
(***************************************************************************)
LowerCase ==
  <<"a", "b", "c", "d", "e", "f", "g", "h", "i", "j", "k", "l", "m",
    "n", "o", "p", "q", "r", "s", "t", "u", "v", "w", "x", "y", "z">>

UpperCase ==
  <<"A", "B", "C", "D", "E", "F", "G", "H", "I", "J", "K", "L", "M",
    "N", "O", "P", "Q", "R", "S", "T", "U", "V", "W", "X", "Y", "Z">>

Digits == <<"0", "1", "2", "3", "4", "5", "6", "7", "8", "9">>

Ord(ch) ==
  CASE ch = "\n" -> 10
    [] ch = "\t" -> 9
    [] ch = " " -> 32
    [] ch = ";" -> 59
    [] \E k \in 1..10 : Digits[k] = ch -> 47 + (CHOOSE k \in 1..10 : Digits[k] = ch)
    [] \E k \in 1..26 : UpperCase[k] = ch -> 64 + (CHOOSE k \in 1..26 : UpperCase[k] = ch)
    [] \E k \in 1..26 : LowerCase[k] = ch -> 96 + (CHOOSE k \in 1..26 : LowerCase[k] = ch)

Text(s) == [k \in 1..Len(s) |-> Ord(s[k])]

\* zasm.c: the name tables, as character codes.
g_ZA_OpNames ==
  <<Text(<<"m", "o", "v">>), Text(<<"l", "d", "i">>), Text(<<"j", "e", "z">>),
    Text(<<"j", "n", "z">>), Text(<<"j", "n", "i">>), Text(<<"h", "l", "t">>),
    Text(<<"r", "s", "t">>)>>

g_ZA_RegNames ==
  Text(<<"a", "c", "g", "m", "x", "y", "n", "p", "b", "j", "l", "s", "d", "z">>)

(***************************************************************************)
(* zasmc.c: tokens.  ZC_Token_T is str[7] (here str[1..7] for C's 0..6)    *)
(* and the flags eol and eof; ZC_Line_T is three tokens.                   *)
(***************************************************************************)
EmptyToken == [str |-> <<0, 0, 0, 0, 0, 0, 0>>, eol |-> FALSE, eof |-> FALSE]

EmptyLine == <<EmptyToken, EmptyToken, EmptyToken>>

\* A ZC_toLower that leaves X, Y and Z as they are.
ZC_toLower_toW(c) == IF c >= 65 /\ c <= 87 THEN c + 97 - 65 ELSE c

ZC_toLower(c) == IF c >= 65 /\ c <= 90 THEN c + 97 - 65 ELSE c

ZC_isWhitespace(c) == c \in {32, 9, 13, 12, 11}

ZC_tokenEnd(token) == token.eol \/ token.eof

\* ZC_parseOp: the operation, or ZC_ERR_OP.
ZC_parseOp(token) ==
  IF token.str[4] # 0 THEN [op |-> ZA_OP_MOV, err |-> ZC_ERR_OP]
  ELSE IF \E k \in 1..7 : SubSeq(token.str, 1, 3) = g_ZA_OpNames[k]
       THEN [op |-> (CHOOSE k \in 1..7 :
                       /\ SubSeq(token.str, 1, 3) = g_ZA_OpNames[k]
                       /\ \A j \in 1..(k - 1) : SubSeq(token.str, 1, 3) # g_ZA_OpNames[j]) - 1,
             err |-> ZC_ERR_OK]
       ELSE [op |-> ZA_OP_MOV, err |-> ZC_ERR_OP]

\* ZC_parseReg: the register, or ZC_ERR_REG.
ZC_parseReg(token) ==
  IF token.str[2] # 0 THEN [reg |-> ZA_REG_A, err |-> ZC_ERR_REG]
  ELSE IF \E k \in 1..14 : token.str[1] = g_ZA_RegNames[k]
       THEN [reg |-> (CHOOSE k \in 1..14 :
                        /\ token.str[1] = g_ZA_RegNames[k]
                        /\ \A j \in 1..(k - 1) : token.str[1] # g_ZA_RegNames[j]) - 1,
             err |-> ZC_ERR_OK]
       ELSE [reg |-> ZA_REG_A, err |-> ZC_ERR_REG]

(***************************************************************************)
(* zasmc.c: immediates.  s is the rest of the token, s[1] being C's s[0].  *)
(* The result is the uint8_t the function returns and the error it sets.   *)
(***************************************************************************)
ImmOk(val) == [val |-> val, err |-> ZC_ERR_OK]

ImmErr(e) == [val |-> 0, err |-> e]

ZC_parseHex(s) ==
  IF s[2] # 0 THEN ImmErr(ZC_ERR_IMM_LEN)
  ELSE LET c == s[1] IN
       IF c >= 48 /\ c <= 57 THEN ImmOk(U8(c - 48))
       ELSE IF c >= 65 /\ c <= 70 THEN ImmOk(U8(c - 65 + 10))
       ELSE IF c >= 97 /\ c <= 102 THEN ImmOk(U8(c - 97 + 10))
       ELSE ImmErr(ZC_ERR_IMM_DIGIT)

\* The loop of ZC_parseBinary from index i (C's s[i] is s[i + 1]) with the
\* accumulator ret: each digit is or-ed in and ret is then shifted left.
RECURSIVE ZC_parseBinaryLoop(_, _, _)
ZC_parseBinaryLoop(s, i, ret) ==
  IF i = 4 THEN ImmOk(ret)
  ELSE LET c == s[i + 1] IN
       IF c = 0 THEN ImmOk(ret)
       ELSE IF c # 48 /\ c # 49 THEN ImmErr(ZC_ERR_IMM_DIGIT)
       ELSE ZC_parseBinaryLoop(s, i + 1, U8(Shl(BitOr(ret, c - 48), 1)))

ZC_parseBinary(s) ==
  IF s[1] = 0 \/ s[5] # 0 THEN ImmErr(ZC_ERR_IMM_LEN)
  ELSE ZC_parseBinaryLoop(s, 0, 0)

\* A ZC_parseDecimal that takes 16 for a value.
ZC_parseDecimal_sixteen(s) ==
  IF s[1] < 49 \/ s[1] > 57 THEN ImmErr(ZC_ERR_IMM_DIGIT)
  ELSE IF s[2] = 0 THEN ImmOk(U8(s[1] - 48))
  ELSE IF s[2] < 48 \/ s[2] > 57 THEN ImmErr(ZC_ERR_IMM_DIGIT)
  ELSE IF s[3] # 0 THEN ImmErr(ZC_ERR_IMM_LEN)
  ELSE LET ret == U8((s[1] - 48) * 10 + (s[2] - 48)) IN
       IF ret > 16 THEN ImmErr(ZC_ERR_IMM_OVERFLOW) ELSE ImmOk(ret)

ZC_parseDecimal(s) ==
  IF s[1] < 49 \/ s[1] > 57 THEN ImmErr(ZC_ERR_IMM_DIGIT)
  ELSE IF s[2] = 0 THEN ImmOk(U8(s[1] - 48))
  ELSE IF s[2] < 48 \/ s[2] > 57 THEN ImmErr(ZC_ERR_IMM_DIGIT)
  ELSE IF s[3] # 0 THEN ImmErr(ZC_ERR_IMM_LEN)
  ELSE LET ret == U8((s[1] - 48) * 10 + (s[2] - 48)) IN
       IF ret > 15 THEN ImmErr(ZC_ERR_IMM_OVERFLOW) ELSE ImmOk(ret)

ZC_parseImm(token) ==
  LET s == token.str IN
  IF s[1] = 48
  THEN IF s[2] = 120 THEN ZC_parseHex(SubSeq(s, 3, 7))
       ELSE IF s[2] = 98 THEN ZC_parseBinary(SubSeq(s, 3, 7))
       ELSE IF s[2] = 0 THEN ImmOk(0)
       ELSE ImmErr(ZC_ERR_IMM_BASE)
  ELSE ZC_parseDecimal(s)

(***************************************************************************)
(* zasmc.c: reading the input stream.  A stream is [buf, pos]: STM_get of  *)
(* stream.c returns buf[pos] and advances, or reports STM_ERR_EOF at the   *)
(* end of the buffer.                                                      *)
(***************************************************************************)
STM_atEnd(stream) == stream.pos = Len(stream.buf)

STM_peek(stream) == stream.buf[stream.pos + 1]

STM_advance(stream) == [stream EXCEPT !.pos = @ + 1]

\* ZC_clearLine: reads through the next newline; eof tells that the end of
\* the input came first.
RECURSIVE ZC_clearLine(_)
ZC_clearLine(stream) ==
  IF STM_atEnd(stream) THEN [stream |-> stream, eof |-> TRUE]
  ELSE IF STM_peek(stream) = 10 THEN [stream |-> STM_advance(stream), eof |-> FALSE]
  ELSE ZC_clearLine(STM_advance(stream))

\* ZC_readChar: stop is the returned bool, c the character read, eol and
\* eof the flags it sets in the token, err the error it sets.
ZC_readChar(stream) ==
  IF STM_atEnd(stream)
  THEN [stop |-> TRUE, c |-> 0, stream |-> stream,
        eol |-> TRUE, eof |-> TRUE, err |-> ZC_ERR_OK]
  ELSE LET c == STM_peek(stream)
           next == STM_advance(stream)
       IN  IF c >= 128
           THEN [stop |-> TRUE, c |-> c, stream |-> next,
                 eol |-> FALSE, eof |-> FALSE, err |-> ZC_ERR_INVAL_CHAR]
           ELSE IF c = 10
           THEN [stop |-> TRUE, c |-> c, stream |-> next,
                 eol |-> TRUE, eof |-> FALSE, err |-> ZC_ERR_OK]
           ELSE IF c = 59
           THEN LET cl == ZC_clearLine(next)
                IN  [stop |-> TRUE, c |-> c, stream |-> cl.stream,
                     eol |-> TRUE, eof |-> cl.eof, err |-> ZC_ERR_OK]
           ELSE [stop |-> FALSE, c |-> ZC_toLower(c), stream |-> next,
                 eol |-> FALSE, eof |-> FALSE, err |-> ZC_ERR_OK]

TokenFlags(token, rc) ==
  [token EXCEPT !.eol = @ \/ rc.eol, !.eof = @ \/ rc.eof]

TokResult(token, stream, err) == [token |-> token, stream |-> stream, err |-> err]

\* A ZC_readToken whose tokens hold five characters.
RECURSIVE ZC_readTokenLoop_five(_, _, _)
ZC_readTokenLoop_five(stream, token, i) ==
  LET rc == ZC_readChar(stream) IN
  IF rc.stop THEN TokResult(TokenFlags(token, rc), rc.stream, rc.err)
  ELSE IF i = 0
       THEN IF ZC_isWhitespace(rc.c)
            THEN ZC_readTokenLoop_five(rc.stream, token, 0)
            ELSE ZC_readTokenLoop_five(rc.stream, [token EXCEPT !.str[1] = rc.c], 1)
  ELSE IF ZC_isWhitespace(rc.c) THEN TokResult(token, rc.stream, ZC_ERR_OK)
  ELSE IF i = 5 THEN TokResult(token, rc.stream, ZC_ERR_TOKEN_LEN)
  ELSE ZC_readTokenLoop_five(rc.stream, [token EXCEPT !.str[i + 1] = rc.c], i + 1)

\* The loops of ZC_readToken: i is the index of the next character of the
\* token (C's str[i]); at i = 6 a seventh character is the length error.
RECURSIVE ZC_readTokenLoop(_, _, _)
ZC_readTokenLoop(stream, token, i) ==
  LET rc == ZC_readChar(stream) IN
  IF rc.stop THEN TokResult(TokenFlags(token, rc), rc.stream, rc.err)
  ELSE IF i = 0
       THEN IF ZC_isWhitespace(rc.c)
            THEN ZC_readTokenLoop(rc.stream, token, 0)
            ELSE ZC_readTokenLoop(rc.stream, [token EXCEPT !.str[1] = rc.c], 1)
  ELSE IF ZC_isWhitespace(rc.c) THEN TokResult(token, rc.stream, ZC_ERR_OK)
  ELSE IF i = 6 THEN TokResult(token, rc.stream, ZC_ERR_TOKEN_LEN)
  ELSE ZC_readTokenLoop(rc.stream, [token EXCEPT !.str[i + 1] = rc.c], i + 1)

ZC_readToken(stream) == ZC_readTokenLoop(stream, EmptyToken, 0)

LineResult(line, stream, err) == [line |-> line, stream |-> stream, err |-> err]

\* The end flags of an empty closing token move to the token before it.
MoveFlags(line, k, token) ==
  [line EXCEPT ![k].eol = token.eol, ![k].eof = token.eof]

\* The loop of ZC_tokenize over i = 0..2 and the read of a fourth token.
RECURSIVE ZC_tokenizeLoop(_, _, _)
ZC_tokenizeLoop(stream, line, i) ==
  LET rt == ZC_readToken(stream) IN
  IF i < 3
  THEN IF rt.err # ZC_ERR_OK THEN LineResult(line, rt.stream, rt.err)
       ELSE LET stored == [line EXCEPT ![i + 1] = rt.token] IN
            IF ZC_tokenEnd(rt.token)
            THEN IF rt.token.str[1] = 0 /\ i # 0
                 THEN LineResult(MoveFlags(stored, i, rt.token), rt.stream, ZC_ERR_OK)
                 ELSE LineResult(stored, rt.stream, ZC_ERR_OK)
            ELSE ZC_tokenizeLoop(rt.stream, stored, i + 1)
  ELSE IF rt.err # ZC_ERR_OK THEN LineResult(line, rt.stream, rt.err)
       ELSE IF ZC_tokenEnd(rt.token) /\ rt.token.str[1] = 0
            THEN LineResult(MoveFlags(line, 3, rt.token), rt.stream, ZC_ERR_OK)
            ELSE LineResult(line, rt.stream, ZC_ERR_LINE_LEN)

ZC_tokenize(stream) == ZC_tokenizeLoop(stream, EmptyLine, 0)

(***************************************************************************)
(* src/src/zasmc.c holds another revision of the tokenizer.  It differs    *)
(* from the one above in two places: ZC_readChar sets eof after every      *)
(* comment, and ZC_tokenize returns after the read of a fourth token when  *)
(* that read set no error.  The operators of that revision end in _zasmc.  *)
(***************************************************************************)
ZC_readChar_zasmc(stream) ==
  IF STM_atEnd(stream)
  THEN [stop |-> TRUE, c |-> 0, stream |-> stream,
        eol |-> TRUE, eof |-> TRUE, err |-> ZC_ERR_OK]
  ELSE LET c == STM_peek(stream)
           next == STM_advance(stream)
       IN  IF c >= 128
           THEN [stop |-> TRUE, c |-> c, stream |-> next,
                 eol |-> FALSE, eof |-> FALSE, err |-> ZC_ERR_INVAL_CHAR]
           ELSE IF c = 10
           THEN [stop |-> TRUE, c |-> c, stream |-> next,
                 eol |-> TRUE, eof |-> FALSE, err |-> ZC_ERR_OK]
           ELSE IF c = 59
           THEN LET cl == ZC_clearLine(next)
                IN  [stop |-> TRUE, c |-> c, stream |-> cl.stream,
                     eol |-> TRUE, eof |-> TRUE, err |-> ZC_ERR_OK]
           ELSE [stop |-> FALSE, c |-> ZC_toLower(c), stream |-> next,
                 eol |-> FALSE, eof |-> FALSE, err |-> ZC_ERR_OK]

RECURSIVE ZC_readTokenLoop_zasmc(_, _, _)
ZC_readTokenLoop_zasmc(stream, token, i) ==
  LET rc == ZC_readChar_zasmc(stream) IN
  IF rc.stop THEN TokResult(TokenFlags(token, rc), rc.stream, rc.err)
  ELSE IF i = 0
       THEN IF ZC_isWhitespace(rc.c)
            THEN ZC_readTokenLoop_zasmc(rc.stream, token, 0)
            ELSE ZC_readTokenLoop_zasmc(rc.stream, [token EXCEPT !.str[1] = rc.c], 1)
  ELSE IF ZC_isWhitespace(rc.c) THEN TokResult(token, rc.stream, ZC_ERR_OK)
  ELSE IF i = 6 THEN TokResult(token, rc.stream, ZC_ERR_TOKEN_LEN)
  ELSE ZC_readTokenLoop_zasmc(rc.stream, [token EXCEPT !.str[i + 1] = rc.c], i + 1)

ZC_readToken_zasmc(stream) == ZC_readTokenLoop_zasmc(stream, EmptyToken, 0)

\* After the loop: a fourth read that set no error returns the line as it
\* is; one that set an error has it replaced by the line-length error
\* (the token of such a read is never an empty closing token here, where
\* the stream itself does not fail).
RECURSIVE ZC_tokenizeLoop_zasmc(_, _, _)
ZC_tokenizeLoop_zasmc(stream, line, i) ==
  LET rt == ZC_readToken_zasmc(stream) IN
  IF i < 3
  THEN IF rt.err # ZC_ERR_OK THEN LineResult(line, rt.stream, rt.err)
       ELSE LET stored == [line EXCEPT ![i + 1] = rt.token] IN
            IF ZC_tokenEnd(rt.token)
            THEN IF rt.token.str[1] = 0 /\ i # 0
                 THEN LineResult(MoveFlags(stored, i, rt.token), rt.stream, ZC_ERR_OK)
                 ELSE LineResult(stored, rt.stream, ZC_ERR_OK)
            ELSE ZC_tokenizeLoop_zasmc(rt.stream, stored, i + 1)
  ELSE IF rt.err = ZC_ERR_OK THEN LineResult(line, rt.stream, ZC_ERR_OK)
       ELSE IF ZC_tokenEnd(rt.token) /\ rt.token.str[1] = 0
            THEN LineResult(MoveFlags(line, 3, rt.token), rt.stream, rt.err)
            ELSE LineResult(line, rt.stream, ZC_ERR_LINE_LEN)

ZC_tokenize_zasmc(stream) == ZC_tokenizeLoop_zasmc(stream, EmptyLine, 0)

\* ZC_lineSize: the number of tokens, 0 standing for the failed assert.
ZC_lineSize(line) ==
  IF \E k \in 1..3 : ZC_tokenEnd(line[k])
  THEN CHOOSE k \in 1..3 : ZC_tokenEnd(line[k]) /\ \A j \in 1..(k - 1) : ~ZC_tokenEnd(line[j])
  ELSE 0

ParseResult(inst, err) == [inst |-> inst, err |-> err, abort |-> FALSE]

ParseAbort == [inst |-> NoArgInst(ZA_OP_MOV), err |-> ZC_ERR_OK, abort |-> TRUE]

\* ZC_parse: the 4-bit fields i and imm keep the low four bits of the value.
ZC_parse(line) ==
  LET po == ZC_parseOp(line[1])
      size == ZC_lineSize(line)
      fmt == ParseResult(NoArgInst(po.op), ZC_ERR_INST_FMT)
  IN  IF po.err # ZC_ERR_OK THEN ParseResult(NoArgInst(po.op), po.err)
      ELSE IF size = 0 THEN ParseAbort
      ELSE CASE po.op = ZA_OP_MOV ->
                  IF size # 3 THEN fmt
                  ELSE LET a == ZC_parseReg(line[2])
                           b == ZC_parseReg(line[3])
                       IN  IF a.err # ZC_ERR_OK
                           THEN ParseResult(MovInst(a.reg, 0), a.err)
                           ELSE ParseResult(MovInst(a.reg, b.reg), b.err)
             [] po.op = ZA_OP_LDI ->
                  IF size # 3 THEN fmt
                  ELSE LET a == ZC_parseReg(line[2])
                           b == ZC_parseImm(line[3])
                       IN  IF a.err # ZC_ERR_OK
                           THEN ParseResult(LdiInst(a.reg, 0), a.err)
                           ELSE ParseResult(LdiInst(a.reg, b.val % 16), b.err)
             [] po.op \in {ZA_OP_JEZ, ZA_OP_JNZ} ->
                  IF size # 2 THEN fmt
                  ELSE LET a == ZC_parseReg(line[2])
                       IN  ParseResult(JmpInst(po.op, a.reg), a.err)
             [] po.op = ZA_OP_JNI ->
                  IF size # 2 THEN fmt
                  ELSE LET b == ZC_parseImm(line[2])
                       IN  ParseResult(JniInst(b.val % 16), b.err)
             [] po.op \in {ZA_OP_HLT, ZA_OP_RST} ->
                  IF size # 1 THEN fmt ELSE ParseResult(NoArgInst(po.op), ZC_ERR_OK)

\* ZC_compile writes to a file-backed stream: STM_put appends the byte.
STM_put(stream, byte) == Append(stream, byte)

(***************************************************************************)
(* zasms.c: the virtual machine.  ZS_State_T is a record of mem[256],      *)
(* rom[256], r[7], b, pc and halted.                                       *)
(***************************************************************************)
\* A ZS_getReg that reads the slot of Number.
ZS_getReg_readsNumber(state, reg) ==
  CASE reg \in {ZA_REG_A, ZA_REG_C, ZA_REG_G, ZA_REG_X, ZA_REG_Y} -> state.r[reg]
    [] reg = ZA_REG_B -> state.b
    [] reg = ZA_REG_D -> U8(state.r[ZA_REG_X] - state.r[ZA_REG_Y])
    [] reg = ZA_REG_J -> IF state.r[ZA_REG_C] # 0 THEN 1 ELSE 0
    [] reg = ZA_REG_L -> U8(Shl(state.r[ZA_REG_A], 4))
    [] reg = ZA_REG_M -> state.mem[state.r[ZA_REG_A]]
    [] reg = ZA_REG_P -> state.pc
    [] reg = ZA_REG_S -> U8(state.r[ZA_REG_X] + state.r[ZA_REG_Y])
    [] reg = ZA_REG_N -> state.r[ZA_REG_N]
    [] reg = ZA_REG_Z -> 0

ZS_getReg(state, reg) ==
  CASE reg \in {ZA_REG_A, ZA_REG_C, ZA_REG_G, ZA_REG_X, ZA_REG_Y} -> state.r[reg]
    [] reg = ZA_REG_B -> state.b
    [] reg = ZA_REG_D -> U8(state.r[ZA_REG_X] - state.r[ZA_REG_Y])
    [] reg = ZA_REG_J -> IF state.r[ZA_REG_C] # 0 THEN 1 ELSE 0
    [] reg = ZA_REG_L -> U8(Shl(state.r[ZA_REG_A], 4))
    [] reg = ZA_REG_M -> state.mem[state.r[ZA_REG_A]]
    [] reg = ZA_REG_P -> state.pc
    [] reg = ZA_REG_S -> U8(state.r[ZA_REG_X] + state.r[ZA_REG_Y])
    [] reg \in {ZA_REG_N, ZA_REG_Z} -> 0

\* The default case of ZS_getReg is assert(false).
ZS_getRegAsserts(reg) == reg \in 0..13

\* A ZS_resetState that leaves the slot of Number as it is.
ZS_resetState_keepsNumber(state) ==
  [state EXCEPT !.r = [k \in 0..6 |-> IF k = ZA_REG_N THEN state.r[k] ELSE 0]]

ZS_resetState(state) == [state EXCEPT !.r = [k \in 0..6 |-> 0]]

\* An increment that stops at 255.
ZS_incPc_saturates(state) == [state EXCEPT !.pc = IF @ = 255 THEN 255 ELSE @ + 1]

ZS_incPc(state) == [state EXCEPT !.pc = U8(@ + 1)]

\* A ZS_exec whose Move writes register storage whatever the destination.
ZS_exec_noMemRoute(state) ==
  IF state.halted THEN state
  ELSE LET code == state.rom[state.pc]
           inst == ZD_parse(code)
       IN  CASE inst.op = ZA_OP_MOV ->
                  ZS_incPc([state EXCEPT !.r[inst.r1] = ZS_getReg(state, inst.r2)])
             [] inst.op = ZA_OP_LDI ->
                  ZS_incPc([state EXCEPT !.r[inst.r] = inst.i])
             [] inst.op = ZA_OP_JEZ ->
                  IF state.r[ZA_REG_C] = 0
                  THEN [state EXCEPT !.pc = ZS_getReg(state, inst.jmp)]
                  ELSE ZS_incPc(state)
             [] inst.op = ZA_OP_JNZ ->
                  IF state.r[ZA_REG_C] # 0
                  THEN [state EXCEPT !.pc = ZS_getReg(state, inst.jmp)]
                  ELSE ZS_incPc(state)
             [] inst.op = ZA_OP_JNI ->
                  IF state.r[ZA_REG_C] # 0
                  THEN [state EXCEPT !.pc = inst.imm]
                  ELSE ZS_incPc(state)
             [] inst.op = ZA_OP_HLT -> [state EXCEPT !.halted = TRUE]
             [] inst.op = ZA_OP_RST -> ZS_incPc(ZS_resetState(state))

\* A ZS_exec that advances the program counter after a taken jump too.
ZS_exec_jumpAdvances(state) ==
  IF state.halted THEN state
  ELSE LET code == state.rom[state.pc]
           inst == ZD_parse(code)
       IN  CASE inst.op = ZA_OP_MOV ->
                  IF inst.r1 = ZA_REG_M
                  THEN ZS_incPc([state EXCEPT
                         !.mem[state.r[ZA_REG_A]] = ZS_getReg(state, inst.r2)])
                  ELSE ZS_incPc([state EXCEPT !.r[inst.r1] = ZS_getReg(state, inst.r2)])
             [] inst.op = ZA_OP_LDI ->
                  ZS_incPc([state EXCEPT !.r[inst.r] = inst.i])
             [] inst.op = ZA_OP_JEZ ->
                  IF state.r[ZA_REG_C] = 0
                  THEN ZS_incPc([state EXCEPT !.pc = ZS_getReg(state, inst.jmp)])
                  ELSE ZS_incPc(state)
             [] inst.op = ZA_OP_JNZ ->
                  IF state.r[ZA_REG_C] # 0
                  THEN ZS_incPc([state EXCEPT !.pc = ZS_getReg(state, inst.jmp)])
                  ELSE ZS_incPc(state)
             [] inst.op = ZA_OP_JNI ->
                  IF state.r[ZA_REG_C] # 0
                  THEN ZS_incPc([state EXCEPT !.pc = inst.imm])
                  ELSE ZS_incPc(state)
             [] inst.op = ZA_OP_HLT -> [state EXCEPT !.halted = TRUE]
             [] inst.op = ZA_OP_RST -> ZS_incPc(ZS_resetState(state))

\* A ZS_exec whose Halt advances the program counter.
ZS_exec_haltAdvances(state) ==
  IF state.halted THEN state
  ELSE LET code == state.rom[state.pc]
           inst == ZD_parse(code)
       IN  CASE inst.op = ZA_OP_MOV ->
                  IF inst.r1 = ZA_REG_M
                  THEN ZS_incPc([state EXCEPT
                         !.mem[state.r[ZA_REG_A]] = ZS_getReg(state, inst.r2)])
                  ELSE ZS_incPc([state EXCEPT !.r[inst.r1] = ZS_getReg(state, inst.r2)])
             [] inst.op = ZA_OP_LDI ->
                  ZS_incPc([state EXCEPT !.r[inst.r] = inst.i])
             [] inst.op = ZA_OP_JEZ ->
                  IF state.r[ZA_REG_C] = 0
                  THEN [state EXCEPT !.pc = ZS_getReg(state, inst.jmp)]
                  ELSE ZS_incPc(state)
             [] inst.op = ZA_OP_JNZ ->
                  IF state.r[ZA_REG_C] # 0
                  THEN [state EXCEPT !.pc = ZS_getReg(state, inst.jmp)]
                  ELSE ZS_incPc(state)
             [] inst.op = ZA_OP_JNI ->
                  IF state.r[ZA_REG_C] # 0
                  THEN [state EXCEPT !.pc = inst.imm]
                  ELSE ZS_incPc(state)
             [] inst.op = ZA_OP_HLT -> ZS_incPc([state EXCEPT !.halted = TRUE])
             [] inst.op = ZA_OP_RST -> ZS_incPc(ZS_resetState(state))

\* A ZS_exec that advances the program counter of a halted processor.
ZS_exec_haltedAdvances(state) ==
  IF state.halted THEN ZS_incPc(state)
  ELSE LET code == state.rom[state.pc]
           inst == ZD_parse(code)
       IN  CASE inst.op = ZA_OP_MOV ->
                  IF inst.r1 = ZA_REG_M
                  THEN ZS_incPc([state EXCEPT
                         !.mem[state.r[ZA_REG_A]] = ZS_getReg(state, inst.r2)])
                  ELSE ZS_incPc([state EXCEPT !.r[inst.r1] = ZS_getReg(state, inst.r2)])
             [] inst.op = ZA_OP_LDI ->
                  ZS_incPc([state EXCEPT !.r[inst.r] = inst.i])
             [] inst.op = ZA_OP_JEZ ->
                  IF state.r[ZA_REG_C] = 0
                  THEN [state EXCEPT !.pc = ZS_getReg(state, inst.jmp)]
                  ELSE ZS_incPc(state)
             [] inst.op = ZA_OP_JNZ ->
                  IF state.r[ZA_REG_C] # 0
                  THEN [state EXCEPT !.pc = ZS_getReg(state, inst.jmp)]
                  ELSE ZS_incPc(state)
             [] inst.op = ZA_OP_JNI ->
                  IF state.r[ZA_REG_C] # 0
                  THEN [state EXCEPT !.pc = inst.imm]
                  ELSE ZS_incPc(state)
             [] inst.op = ZA_OP_HLT -> [state EXCEPT !.halted = TRUE]
             [] inst.op = ZA_OP_RST -> ZS_incPc(ZS_resetState(state))

\* ZS_exec: the state after one call.
ZS_exec(state) ==
  IF state.halted THEN state
  ELSE LET code == state.rom[state.pc]
           inst == ZD_parse(code)
       IN  CASE inst.op = ZA_OP_MOV ->
                  IF inst.r1 = ZA_REG_M
                  THEN ZS_incPc([state EXCEPT
                         !.mem[state.r[ZA_REG_A]] = ZS_getReg(state, inst.r2)])
                  ELSE ZS_incPc([state EXCEPT !.r[inst.r1] = ZS_getReg(state, inst.r2)])
             [] inst.op = ZA_OP_LDI ->
                  ZS_incPc([state EXCEPT !.r[inst.r] = inst.i])
             [] inst.op = ZA_OP_JEZ ->
                  IF state.r[ZA_REG_C] = 0
                  THEN [state EXCEPT !.pc = ZS_getReg(state, inst.jmp)]
                  ELSE ZS_incPc(state)
             [] inst.op = ZA_OP_JNZ ->
                  IF state.r[ZA_REG_C] # 0
                  THEN [state EXCEPT !.pc = ZS_getReg(state, inst.jmp)]
                  ELSE ZS_incPc(state)
             [] inst.op = ZA_OP_JNI ->
                  IF state.r[ZA_REG_C] # 0
                  THEN [state EXCEPT !.pc = inst.imm]
                  ELSE ZS_incPc(state)
             [] inst.op = ZA_OP_HLT -> [state EXCEPT !.halted = TRUE]
             [] inst.op = ZA_OP_RST -> ZS_incPc(ZS_resetState(state))

\* The register codes a call of ZS_exec passes to ZS_getReg.
ZS_execReads(state) ==
  IF state.halted THEN {}
  ELSE LET inst == ZD_parse(state.rom[state.pc])
       IN  CASE inst.op = ZA_OP_MOV -> {inst.r2}
             [] inst.op = ZA_OP_JEZ /\ state.r[ZA_REG_C] = 0 -> {inst.jmp}
             [] inst.op = ZA_OP_JNZ /\ state.r[ZA_REG_C] # 0 -> {inst.jmp}
             [] OTHER -> {}

\* The indices of state->r a call of ZS_exec uses itself: the destination
\* of a Move or LoadImmediate, Address for a Move to Memory, Conditional for
\* a jump.
ZS_execSlots(state) ==
  IF state.halted THEN {}
  ELSE LET inst == ZD_parse(state.rom[state.pc])
       IN  CASE inst.op = ZA_OP_MOV ->
                  IF inst.r1 = ZA_REG_M THEN {ZA_REG_A} ELSE {inst.r1}
             [] inst.op = ZA_OP_LDI -> {inst.r}
             [] inst.op \in {ZA_OP_JEZ, ZA_OP_JNZ, ZA_OP_JNI} -> {ZA_REG_C}
             [] OTHER -> {}

\* The default case of the switch of ZS_exec is assert(false).
ZS_execAsserts(state) ==
  ~state.halted /\ ZD_parse(state.rom[state.pc]).op \notin ZA_OP_MOV..ZA_OP_RST

(***************************************************************************)
(* State.                                                                  *)
(*   rt       an encode/decode round trip: where it started, how far it    *)
(*            got, the instruction, the byte, the result of ZC_generate    *)
(*            and the instruction decoded back                             *)
(*   immTok, immRes, immDone   a token, the result of ZC_parseImm on it    *)
(*            and whether ZC_parseImm has run                              *)
(*   srcLines, srcNl  the source text given to ZC_compile: the lines (as   *)
(*            indices of Corpus) and whether the last line ends in a       *)
(*            newline                                                      *)
(*   inS, outS, err, lineNum, cpc   ZC_compile: the input stream, the      *)
(*            bytes written, the error, the line counter and whether the   *)
(*            loop runs, has returned or died in an assert                 *)
(*   rev      the revision of the tokenizer ZC_compile is built with       *)
(*   tkRev, tkShape, tkS, tkToks, tkLine   the tokenizer on one line: its  *)
(*            revision, the line (the lengths of its tokens and what       *)
(*            follows the last one), the stream, the results of the calls  *)
(*            of ZC_readToken made so far, and the result of ZC_tokenize   *)
(*   state, prev, lastCmd, steps   the simulator: its ZS_State_T, the      *)
(*            last command ("new", "exec" or "buttons"), the state before  *)
(*            it if it was a call of ZS_exec (else the current state),     *)
(*            and the number of ZS_exec calls since the last ZS_new        *)
(*   cs       for two runs of ZC_compile, on a source text and on the same *)
(*            text with the case of letters changed: which run is on and   *)
(*            what the first returned                                      *)
(*   dis      a run of ZD_disassemble: the bytes read, the kind of the     *)
(*            output stream, what was written to it and the error          *)
(*   zm       a byte, the instruction ZD_parse makes of it and the         *)
(*            microcode signals ZM_translate gives for it                  *)
(*   ctx, toDev, toHost, fw, zfh   the flash tool and the programmer: the  *)
(*            ZF_Ctx_T of the host, the bytes on the serial line in each   *)
(*            direction, the firmware, and what the host last sent,        *)
(*            received and returned                                        *)
(***************************************************************************)
VARIABLES rt, immTok, immRes, immDone, srcLines, srcNl, inS, outS, err, lineNum, cpc,
          state, prev, lastCmd, steps, rev, tkRev, tkShape, tkS, tkToks, tkLine,
          cs, dis, zm, ctx, toDev, toHost, fw, zfh

vars == <<rt, immTok, immRes, immDone, srcLines, srcNl, inS, outS, err, lineNum, cpc,
          state, prev, lastCmd, steps, rev, tkRev, tkShape, tkS, tkToks, tkLine,
          cs, dis, zm, ctx, toDev, toHost, fw, zfh>>

codecVars == <<rt>>

immVars == <<immTok, immRes, immDone>>

asmVars == <<srcLines, srcNl, inS, outS, err, lineNum, cpc, rev>>

vmVars == <<state, prev, lastCmd, steps>>

tokVars == <<tkRev, tkShape, tkS, tkToks, tkLine>>

caseVars == <<cs>>

disVars == <<dis>>

zmVars == <<zm>>

zfVars == <<ctx, toDev, toHost, fw, zfh>>

toolVars == <<caseVars, disVars, zmVars, zfVars>>

(***************************************************************************)
(* Bounds.                                                                 *)
(***************************************************************************)
\* The longest digit string after the base prefix of an immediate token.
MaxDigits == 4

\* The largest number of lines of a source text.
MaxLines == 3

\* The largest number of ZS_exec calls after a ZS_new.
MaxSteps == 3

\* The largest number of tokens on the line given to the tokenizer.
MaxLineTokens == 4

(***************************************************************************)
(* Idle values: what a subsystem's variables hold in the specifications    *)
(* of the other subsystems.                                                *)
(***************************************************************************)
IdleCodec == rt = [start |-> "none", stage |-> 0, inst |-> NoArgInst(ZA_OP_HLT),
                   code |-> 0, gen |-> GenOk(0), back |-> NoArgInst(ZA_OP_HLT)]

IdleImm == immTok = EmptyToken /\ immRes = ImmOk(0) /\ immDone = FALSE

IdleAsm ==
  /\ srcLines = <<>>
  /\ srcNl = TRUE
  /\ inS = [buf |-> <<>>, pos |-> 0]
  /\ outS = <<>>
  /\ err = ZC_ERR_OK
  /\ lineNum = 1
  /\ cpc = "idle"
  /\ rev = "part_005"

ZeroState == [mem |-> [a \in 0..255 |-> 0], rom |-> [a \in 0..255 |-> 0],
              r |-> [k \in 0..6 |-> 0], b |-> 0, pc |-> 0, halted |-> FALSE]

IdleVm == state = ZeroState /\ prev = ZeroState /\ lastCmd = "idle" /\ steps = 0

\* The two revisions of the tokenizer: the one of src/src/zasmc.c and the
\* other one.
Revisions == {"part_005", "zasmc.c"}

NoLine == [done |-> FALSE, line |-> EmptyLine, err |-> ZC_ERR_OK]

IdleTok ==
  /\ tkRev = "part_005"
  /\ tkShape = [lens |-> <<>>, end |-> 1]
  /\ tkS = [buf |-> <<>>, pos |-> 0]
  /\ tkToks = <<>>
  /\ tkLine = NoLine

\* The result of a run of ZC_compile that has not returned.
IdleRun == [outS |-> <<>>, err |-> ZC_ERR_OK, lineNum |-> 1, cpc |-> "idle"]

IdleCase == cs = [variant |-> "none", phase |-> "idle", a |-> IdleRun]

IdleDis == dis = [bytes |-> <<>>, kind |-> "file", out |-> <<>>, pc |-> "idle"]

IdleZm == zm = [pc |-> "idle", byte |-> 0, unspec |-> 0]

\* The flash tool before ZF_open, with no programmer on the line.
IdleZf ==
  /\ ctx = [pc |-> "idle"]
  /\ toDev = <<>>
  /\ toHost = <<>>
  /\ fw = [pc |-> "idle"]
  /\ zfh = [pc |-> "idle"]

IdleTools == IdleCase /\ IdleDis /\ IdleZm /\ IdleZf

(***************************************************************************)
(* Round trips through ZC_generate and ZD_parse.                           *)
(***************************************************************************)
\* The instructions ZC_parse can hand to ZC_generate: registers 0..13 and
\* immediates 0..15.
AllInsts ==
  {MovInst(a, b) : a \in 0..13, b \in 0..13}
    \cup {LdiInst(a, b) : a \in 0..13, b \in 0..15}
    \cup {JmpInst(o, a) : o \in {ZA_OP_JEZ, ZA_OP_JNZ}, a \in 0..13}
    \cup {JniInst(b) : b \in 0..15}
    \cup {NoArgInst(ZA_OP_HLT), NoArgInst(ZA_OP_RST)}

InitCodec ==
  /\ \/ \E i \in AllInsts :
          rt = [start |-> "inst", stage |-> 0, inst |-> i,
                code |-> 0, gen |-> GenOk(0), back |-> i]
     \/ \E b \in 0..255 :
          rt = [start |-> "byte", stage |-> 0, inst |-> NoArgInst(ZA_OP_HLT),
                code |-> b, gen |-> GenOk(0), back |-> NoArgInst(ZA_OP_HLT)]
  /\ IdleImm /\ IdleAsm /\ IdleVm /\ IdleTok /\ IdleTools

\* Encode the instruction the round trip starts from.
GenerateInst ==
  /\ rt.start = "inst" /\ rt.stage = 0
  /\ LET g == ZC_generate(rt.inst)
     IN  rt' = [rt EXCEPT !.stage = 1, !.gen = g, !.code = g.code]
  /\ UNCHANGED <<immVars, asmVars, vmVars, tokVars, toolVars>>

\* Decode the byte ZC_generate returned without error.
ParseGenerated ==
  /\ rt.start = "inst" /\ rt.stage = 1
  /\ rt.gen.err = ZC_ERR_OK /\ ~rt.gen.abort
  /\ rt' = [rt EXCEPT !.stage = 2, !.back = ZD_parse(rt.code)]
  /\ UNCHANGED <<immVars, asmVars, vmVars, tokVars, toolVars>>

\* Decode the byte the round trip starts from.
ParseByte ==
  /\ rt.start = "byte" /\ rt.stage = 0
  /\ rt' = [rt EXCEPT !.stage = 1, !.inst = ZD_parse(rt.code)]
  /\ UNCHANGED <<immVars, asmVars, vmVars, tokVars, toolVars>>

\* Encode the decoded instruction.
GenerateParsed ==
  /\ rt.start = "byte" /\ rt.stage = 1
  /\ rt' = [rt EXCEPT !.stage = 2, !.gen = ZC_generate(rt.inst)]
  /\ UNCHANGED <<immVars, asmVars, vmVars, tokVars, toolVars>>

NextCodec == GenerateInst \/ ParseGenerated \/ ParseByte \/ GenerateParsed

SpecCodec == InitCodec /\ [][NextCodec]_vars

(* C1: every valid instruction (Move with destination 0-6 and source 0-13, *)
(* LoadImmediate with destination 0-6 and immediate 0-15, JumpIfZero and   *)
(* JumpIfNotZero with register 0-13, JumpIfNotZeroImmediate with immediate *)
(* 0-15, Halt, Reset) is encoded by ZC_generate without error, and         *)
(* ZD_parse of the byte gives the instruction back.                        *)
C1_IsValid(i) ==
  \/ i.op = ZA_OP_MOV /\ i.r1 \in 0..6 /\ i.r2 \in 0..13
  \/ i.op = ZA_OP_LDI /\ i.r \in 0..6 /\ i.i \in 0..15
  \/ i.op \in {ZA_OP_JEZ, ZA_OP_JNZ} /\ i.jmp \in 0..13
  \/ i.op = ZA_OP_JNI /\ i.imm \in 0..15
  \/ i.op \in {ZA_OP_HLT, ZA_OP_RST}

C1_RoundTripInst ==
  (rt.start = "inst" /\ C1_IsValid(rt.inst)) =>
    /\ rt.stage >= 1 => (rt.gen.err = ZC_ERR_OK /\ ~rt.gen.abort /\ rt.code \in 0..255)
    /\ rt.stage = 2 => rt.back = rt.inst

C1_Witness ==
  /\ rt.start = "inst" /\ rt.stage = 2
  /\ rt.inst = JmpInst(ZA_OP_JEZ, 13) /\ rt.code = 95 /\ rt.back = rt.inst

(* C2: for every byte b whose decoding passes ZA_checkInst, ZC_generate of *)
(* the decoded instruction reports no error and returns b.                 *)
C2_RoundTripByte ==
  (rt.start = "byte" /\ rt.stage = 2 /\ ZA_checkInst(rt.inst)) =>
    (rt.gen.err = ZC_ERR_OK /\ ~rt.gen.abort /\ rt.gen.code = rt.code)

C2_Witness ==
  /\ rt.start = "byte" /\ rt.stage = 2 /\ rt.code = 94
  /\ ZA_checkInst(rt.inst) /\ rt.gen.code = 94

(* C3: ZD_parse follows the priority-ordered layout on all 256 bytes: top  *)
(* bit set is LoadImmediate (register bits 6-4, immediate bits 3-0) unless *)
(* the top nibble is 1111, which is JumpIfNotZeroImmediate; top bit clear  *)
(* with low nibble below 14 is Move (destination high nibble, source low   *)
(* nibble) unless the high nibble is 7, which is JumpIfNotZero; 0x6F is    *)
(* Halt, 0x7F is Reset; every other byte is JumpIfZero with register code  *)
(* (bit 0 << 3) | bits 6-4, so 0x0E is JumpIfZero of register 0.           *)
C3_Layout(b) ==
  LET hi == b \div 16
      lo == b % 16
  IN  IF b >= 128
      THEN IF hi = 15 THEN [op |-> ZA_OP_JNI, imm |-> lo]
           ELSE [op |-> ZA_OP_LDI, r |-> hi - 8, i |-> lo]
      ELSE IF lo < 14
      THEN IF hi = 7 THEN [op |-> ZA_OP_JNZ, jmp |-> lo]
           ELSE [op |-> ZA_OP_MOV, r1 |-> hi, r2 |-> lo]
      ELSE IF b = 111 THEN [op |-> ZA_OP_HLT]
      ELSE IF b = 127 THEN [op |-> ZA_OP_RST]
      ELSE [op |-> ZA_OP_JEZ, jmp |-> 8 * (b % 2) + hi]

C3_ParseLayout ==
  (rt.start = "byte" /\ rt.stage >= 1) =>
    /\ rt.inst = C3_Layout(rt.code)
    /\ rt.code = 14 => rt.inst = [op |-> ZA_OP_JEZ, jmp |-> 0]

C3_Witness ==
  /\ rt.start = "byte" /\ rt.stage >= 1 /\ rt.code = 14
  /\ rt.inst.op = ZA_OP_JEZ /\ rt.inst.jmp = 0

(* C4, as claimed: some byte b in 0..255 decodes to an instruction that    *)
(* fails ZA_checkInst, for example a JumpIfZero of register code 14 or 15. *)
C4_SomeByteInvalid ==
  (rt.start = "byte" /\ rt.stage >= 1) =>
    \E b \in 0..255 : ~ZA_checkInst(ZD_parse(b))

(* C4, amended: every byte decodes to an instruction that passes           *)
(* ZA_checkInst; the two bytes whose reassembled JumpIfZero register code  *)
(* would be 14 and 15, 0x6F and 0x7F, decode to Halt and Reset.            *)
C4_EveryByteValid ==
  (rt.start = "byte" /\ rt.stage >= 1) =>
    /\ ZA_checkInst(rt.inst)
    /\ rt.inst.op = ZA_OP_JEZ => rt.inst.jmp \in 0..13
    /\ (rt.code % 16 = 15 /\ rt.code \div 16 \in {6, 7}) =>
         rt.inst.op \in {ZA_OP_HLT, ZA_OP_RST}

C4_Witness ==
  /\ rt.start = "byte" /\ rt.stage >= 1 /\ rt.code = 111
  /\ rt.inst.op = ZA_OP_HLT /\ ZA_checkInst(rt.inst)

(***************************************************************************)
(* ZC_parseImm on immediate tokens.                                        *)
(***************************************************************************)
\* The characters immediate tokens are made of, as one-letter strings.
ImmChars == {"0", "1", "5", "6", "9", "F", "f", "g"}

ImmPrefixes == {<<>>, <<"0", "x">>, <<"0", "b">>}

\* A token holds at most six characters.
ImmTexts ==
  {p \o d : p \in ImmPrefixes,
            d \in UNION {[1..n -> ImmChars] : n \in 0..MaxDigits}}

\* The token ZC_readToken builds from a text of at most six characters.
TokenOf(text) ==
  [str |-> [k \in 1..7 |-> IF k <= Len(text) THEN Ord(text[k]) ELSE 0],
   eol |-> TRUE, eof |-> FALSE]

InitImm ==
  /\ \E t \in ImmTexts : Len(t) \in 1..6 /\ immTok = TokenOf(t)
  /\ immRes = ImmOk(0)
  /\ immDone = FALSE
  /\ IdleCodec /\ IdleAsm /\ IdleVm /\ IdleTok /\ IdleTools

ParseImm ==
  /\ ~immDone
  /\ immRes' = ZC_parseImm(immTok)
  /\ immDone' = TRUE
  /\ UNCHANGED <<immTok, codecVars, asmVars, vmVars, tokVars, toolVars>>

NextImm == ParseImm

SpecImm == InitImm /\ [][NextImm]_vars

(* C8: ZC_parseImm returns the value of each immediate literal: "0" gives  *)
(* 0; "0x" and one hex digit gives the digit's value; "0b" and four binary *)
(* digits gives their binary value ("0b1111" gives 15); a decimal literal  *)
(* 1..15 gives that value; "16" gives the overflow error.                  *)
C8_HexVal(c) ==
  CASE c \in 48..57 -> c - 48
    [] c \in 65..70 -> c - 55
    [] c \in 97..102 -> c - 87

C8_IsHex(c) == c \in (48..57) \cup (65..70) \cup (97..102)

C8_IsBin(c) == c \in {48, 49}

C8_ImmTable ==
  immDone =>
    LET s == immTok.str IN
    /\ (s[1] = 48 /\ s[2] = 0) => immRes = [val |-> 0, err |-> ZC_ERR_OK]
    /\ (s[1] = 48 /\ s[2] = 120 /\ C8_IsHex(s[3]) /\ s[4] = 0) =>
         immRes = [val |-> C8_HexVal(s[3]), err |-> ZC_ERR_OK]
    /\ (s[1] = 48 /\ s[2] = 98 /\ \A k \in 3..6 : C8_IsBin(s[k])) =>
         immRes = [val |-> 8 * (s[3] - 48) + 4 * (s[4] - 48)
                             + 2 * (s[5] - 48) + (s[6] - 48),
                   err |-> ZC_ERR_OK]
    /\ (s[1] \in 49..57 /\ s[2] = 0) => immRes = [val |-> s[1] - 48, err |-> ZC_ERR_OK]
    /\ (s[1] = 49 /\ s[2] \in 48..53 /\ s[3] = 0) =>
         immRes = [val |-> 10 + s[2] - 48, err |-> ZC_ERR_OK]
    /\ (s[1] = 49 /\ s[2] = 54 /\ s[3] = 0) => immRes.err = ZC_ERR_IMM_OVERFLOW

\* The rows of the table other than the binary one.
C8_ImmTableNoBinary ==
  immDone =>
    LET s == immTok.str IN
    /\ (s[1] = 48 /\ s[2] = 0) => immRes = [val |-> 0, err |-> ZC_ERR_OK]
    /\ (s[1] = 48 /\ s[2] = 120 /\ C8_IsHex(s[3]) /\ s[4] = 0) =>
         immRes = [val |-> C8_HexVal(s[3]), err |-> ZC_ERR_OK]
    /\ (s[1] \in 49..57 /\ s[2] = 0) => immRes = [val |-> s[1] - 48, err |-> ZC_ERR_OK]
    /\ (s[1] = 49 /\ s[2] \in 48..53 /\ s[3] = 0) =>
         immRes = [val |-> 10 + s[2] - 48, err |-> ZC_ERR_OK]
    /\ (s[1] = 49 /\ s[2] = 54 /\ s[3] = 0) => immRes.err = ZC_ERR_IMM_OVERFLOW

\* Decimal digits.
IsDec(c) == c \in 48..57

Corpus ==
  <<
    [text |-> <<"r", "s", "t">>,
     kind |-> "inst", byte |-> 127, err |-> ZC_ERR_OK],
    [text |-> <<"h", "l", "t">>,
     kind |-> "inst", byte |-> 111, err |-> ZC_ERR_OK],
    [text |-> <<"l", "d", "i", " ", "a", " ", "1">>,
     kind |-> "inst", byte |-> 129, err |-> ZC_ERR_OK],
    [text |-> <<"j", "e", "z", " ", "a">>,
     kind |-> "inst", byte |-> 14, err |-> ZC_ERR_OK],
    [text |-> <<"m", "o", "v", " ", "n", " ", "x">>,
     kind |-> "inst", byte |-> 100, err |-> ZC_ERR_OK],
    [text |-> <<>>,
     kind |-> "blank", byte |-> 0, err |-> ZC_ERR_OK],
    [text |-> <<"m", "o", "v", " ", "p", " ", "a">>,
     kind |-> "bad", byte |-> 0, err |-> ZC_ERR_RO_REG],
    [text |-> <<"l", "d", "i", " ", "p", " ", "1">>,
     kind |-> "bad", byte |-> 0, err |-> ZC_ERR_RO_REG],
    [text |-> <<"r", "s", "t", " ", ";", " ", "n", "o", "t", "e">>,
     kind |-> "inst", byte |-> 127, err |-> ZC_ERR_OK],
    [text |-> <<"m", "o", "v", " ", "a", " ", "c", " ">>,
     kind |-> "inst", byte |-> 1, err |-> ZC_ERR_OK],
    [text |-> <<";", " ", "n", "o", "t", "e">>,
     kind |-> "blank", byte |-> 0, err |-> ZC_ERR_OK],
    [text |-> <<"h", "l", "t", " ">>,
     kind |-> "inst", byte |-> 111, err |-> ZC_ERR_OK],
    [text |-> <<"l", "d", "i", " ", "a", " ", "0", "b", "1", "1", "1", "1">>,
     kind |-> "inst", byte |-> 143, err |-> ZC_ERR_OK],
    [text |-> <<"m", "o", "v", " ", "a">>,
     kind |-> "bad", byte |-> 0, err |-> ZC_ERR_INST_FMT],
    [text |-> <<"a", "b", "c", "d", "e", "f", "g">>,
     kind |-> "bad", byte |-> 0, err |-> ZC_ERR_TOKEN_LEN],
    [text |-> <<"a", " ", "b", " ", "c", " ", "d">>,
     kind |-> "bad", byte |-> 0, err |-> ZC_ERR_LINE_LEN],
    [text |-> <<"l", "d", "i", " ", "a", " ", "0", "x", "f">>,
     kind |-> "inst", byte |-> 143, err |-> ZC_ERR_OK],
    [text |-> <<"j", "n", "i", " ", "0", "b", "1">>,
     kind |-> "inst", byte |-> 241, err |-> ZC_ERR_OK],
    [text |-> <<"l", "d", "i", " ", "a", " ", "0", "x", "g">>,
     kind |-> "bad", byte |-> 0, err |-> ZC_ERR_IMM_DIGIT]
  >>

\* The lines of the sources of SpecAsm, and the lines of the sources with
\* errors of every stage: the generator (7), the parser (14) and the
\* tokenizer (15, 16), after instructions, blank lines and comments.
BaseLines == 1..13

ErrLines == {1, 6, 9, 11, 7, 14, 15, 16}

\* The lines of the sources whose letters change case: mnemonics, register
\* names, a comment, the base markers x and b, a hex digit, and two errors.
CaseLines == {5, 7, 9, 17, 18, 19}

\* The text of a source: its lines, each followed by a newline, the last
\* one only if nl.
RECURSIVE SourceText(_, _)
SourceText(lines, nl) ==
  IF lines = <<>> THEN <<>>
  ELSE Text(Corpus[Head(lines)].text)
         \o (IF Len(lines) > 1 \/ nl THEN <<10>> ELSE <<>>)
         \o SourceText(Tail(lines), nl)

\* ZC_compile starts on a source text, built with revision r of the
\* tokenizer.
InitAsmRev(r) ==
  /\ srcLines \in UNION {[1..n -> BaseLines] : n \in 0..MaxLines}
  /\ srcNl \in (IF srcLines = <<>> THEN {TRUE} ELSE BOOLEAN)
  /\ inS = [buf |-> SourceText(srcLines, srcNl), pos |-> 0]
  /\ outS = <<>>
  /\ err = ZC_ERR_OK
  /\ lineNum = 1
  /\ cpc = "run"
  /\ rev = r
  /\ IdleCodec /\ IdleImm /\ IdleVm /\ IdleTok /\ IdleTools

InitAsm == InitAsmRev("part_005")

\* A ZC_compile that does not count the lines it skips.
ZC_compile_skipsBlank ==
  /\ cpc = "run"
  /\ LET tk == IF rev = "zasmc.c" THEN ZC_tokenize_zasmc(inS) ELSE ZC_tokenize(inS)
         pr == ZC_parse(tk.line)
         gn == ZC_generate(pr.inst)
     IN  /\ inS' = tk.stream
         /\ IF tk.err # ZC_ERR_OK
            THEN err' = tk.err /\ cpc' = "done" /\ UNCHANGED <<outS, lineNum>>
            ELSE IF tk.line[1].eof
            THEN cpc' = "done" /\ UNCHANGED <<outS, err, lineNum>>
            ELSE IF tk.line[1].eol /\ tk.line[1].str[1] = 0
            THEN UNCHANGED <<outS, err, cpc, lineNum>>
            ELSE IF pr.abort
            THEN cpc' = "abort" /\ UNCHANGED <<outS, err, lineNum>>
            ELSE IF pr.err # ZC_ERR_OK
            THEN err' = pr.err /\ cpc' = "done" /\ UNCHANGED <<outS, lineNum>>
            ELSE IF gn.abort
            THEN cpc' = "abort" /\ UNCHANGED <<outS, err, lineNum>>
            ELSE IF gn.err # ZC_ERR_OK
            THEN err' = gn.err /\ cpc' = "done" /\ UNCHANGED <<outS, lineNum>>
            ELSE /\ outS' = STM_put(outS, gn.code)
                 /\ lineNum' = lineNum + 1
                 /\ UNCHANGED <<err, cpc>>
  /\ UNCHANGED <<srcLines, srcNl, rev, codecVars, immVars, vmVars, tokVars, toolVars>>

\* One iteration of the loop of ZC_compile: a line is tokenized, parsed,
\* encoded and its byte written; the loop goes on, returns lineNum, or the
\* process dies in a failed assert.
ZC_compile ==
  /\ cpc = "run"
  /\ LET tk == IF rev = "zasmc.c" THEN ZC_tokenize_zasmc(inS) ELSE ZC_tokenize(inS)
         pr == ZC_parse(tk.line)
         gn == ZC_generate(pr.inst)
     IN  /\ inS' = tk.stream
         /\ IF tk.err # ZC_ERR_OK
            THEN err' = tk.err /\ cpc' = "done" /\ UNCHANGED <<outS, lineNum>>
            ELSE IF tk.line[1].eof
            THEN cpc' = "done" /\ UNCHANGED <<outS, err, lineNum>>
            ELSE IF tk.line[1].eol /\ tk.line[1].str[1] = 0
            THEN lineNum' = lineNum + 1 /\ UNCHANGED <<outS, err, cpc>>
            ELSE IF pr.abort
            THEN cpc' = "abort" /\ UNCHANGED <<outS, err, lineNum>>
            ELSE IF pr.err # ZC_ERR_OK
            THEN err' = pr.err /\ cpc' = "done" /\ UNCHANGED <<outS, lineNum>>
            ELSE IF gn.abort
            THEN cpc' = "abort" /\ UNCHANGED <<outS, err, lineNum>>
            ELSE IF gn.err # ZC_ERR_OK
            THEN err' = gn.err /\ cpc' = "done" /\ UNCHANGED <<outS, lineNum>>
            ELSE /\ outS' = STM_put(outS, gn.code)
                 /\ lineNum' = lineNum + 1
                 /\ UNCHANGED <<err, cpc>>
  /\ UNCHANGED <<srcLines, srcNl, rev, codecVars, immVars, vmVars, tokVars, toolVars>>

NextAsm == ZC_compile

SpecAsm == InitAsm /\ [][NextAsm]_vars

\* ZC_compile built with either revision of the tokenizer.
InitAsmRevs == \E r \in Revisions : InitAsmRev(r)

SpecAsmRevs == InitAsmRevs /\ [][NextAsm]_vars

\* ZC_compile, built with either revision of the tokenizer, on the sources
\* with errors.
InitAsmErr ==
  /\ rev \in Revisions
  /\ srcLines \in UNION {[1..n -> ErrLines] : n \in 0..MaxLines}
  /\ srcNl \in (IF srcLines = <<>> THEN {TRUE} ELSE BOOLEAN)
  /\ inS = [buf |-> SourceText(srcLines, srcNl), pos |-> 0]
  /\ outS = <<>>
  /\ err = ZC_ERR_OK
  /\ lineNum = 1
  /\ cpc = "run"
  /\ IdleCodec /\ IdleImm /\ IdleVm /\ IdleTok /\ IdleTools

SpecAsmErr == InitAsmErr /\ [][NextAsm]_vars

\* Round trips and source texts together.
InitAsmCodec == InitCodec \/ InitAsm

NextAsmCodec == NextCodec \/ NextAsm

SpecAsmCodec == InitAsmCodec /\ [][NextAsmCodec]_vars

\* What the source text is, by the kinds of its lines.
KindAt(k) == Corpus[srcLines[k]].kind

\* The number of well-formed instruction lines among the first n lines.
InstCount(n) == Cardinality({k \in 1..n : KindAt(k) = "inst"})

\* All of the first n lines are instructions or blank.
CleanUpTo(n) == \A k \in 1..n : KindAt(k) \in {"inst", "blank"}

\* The bytes of the instruction lines, in order, by the manual's table.
RECURSIVE ExpectedBytes(_)
ExpectedBytes(lines) ==
  IF lines = <<>> THEN <<>>
  ELSE (IF Corpus[Head(lines)].kind = "inst" THEN <<Corpus[Head(lines)].byte>> ELSE <<>>)
         \o ExpectedBytes(Tail(lines))

(* C5: ZC_generate rejects every Move or LoadImmediate whose destination   *)
(* register code is outside 0-6 with ZC_ERR_RO_REG, and ZC_compile writes  *)
(* no byte for such a line ("mov p a" is an error, not the byte 0x70).     *)
C5_RejectsReadOnly ==
  /\ (/\ rt.start = "inst" /\ rt.stage >= 1
      /\ \/ rt.inst.op = ZA_OP_MOV /\ rt.inst.r1 \notin 0..6
         \/ rt.inst.op = ZA_OP_LDI /\ rt.inst.r \notin 0..6)
       => (rt.gen.err = ZC_ERR_RO_REG /\ ~rt.gen.abort)
  /\ \A k \in 1..Len(srcLines) :
       (CleanUpTo(k - 1) /\ KindAt(k) = "bad"
          /\ Corpus[srcLines[k]].err = ZC_ERR_RO_REG) =>
         /\ Len(outS) <= InstCount(k - 1)
         /\ cpc # "abort"
         /\ cpc = "done" =>
              (err = ZC_ERR_RO_REG /\ lineNum = k /\ Len(outS) = InstCount(k - 1))

C5_Witness ==
  /\ cpc = "done" /\ srcLines = <<1, 7>> /\ err = ZC_ERR_RO_REG
  /\ outS = <<127>> /\ lineNum = 2

(* C6: for a source of N well-formed instruction lines, each ended by a    *)
(* newline, with blank lines allowed in between, ZC_compile reports no     *)
(* error and writes exactly N bytes, the k-th being the encoding of the    *)
(* k-th instruction; "rst", "ldi a 1", "hlt" compile to 0x7F, 0x81, 0x6F.  *)
C6_CompilesLines ==
  (cpc = "done" /\ srcNl /\ CleanUpTo(Len(srcLines))) =>
    /\ err = ZC_ERR_OK
    /\ outS = ExpectedBytes(srcLines)
    /\ srcLines = <<1, 3, 2>> => outS = <<127, 129, 111>>

\* C6 for the sources without a binary immediate.
NoBinaryLine == \A k \in 1..Len(srcLines) : srcLines[k] # 13

C6_CompilesLinesNoBinary == NoBinaryLine => C6_CompilesLines

(* C7: ZC_compile writes exactly one byte for every line that holds a      *)
(* well-formed instruction, whether the line is ended by a newline or by   *)
(* the end of the input: a final "hlt" or "rst" without a newline, or      *)
(* followed only by spaces or a comment, still produces its byte ("rst",   *)
(* newline, "hlt" compiles to 0x7F, 0x6F).                                 *)
C7_OneBytePerLine ==
  (cpc = "done" /\ CleanUpTo(Len(srcLines))) =>
    /\ err = ZC_ERR_OK
    /\ Len(outS) = InstCount(Len(srcLines))
    /\ (srcLines = <<1, 2>> /\ ~srcNl) => outS = <<127, 111>>

\* C7 for the sources whose last line ends in a newline.
C7_OneBytePerLineNewline == srcNl => C7_OneBytePerLine

\* The first line of the source that is an error, 0 if there is none.
FirstBadLine ==
  IF \E k \in 1..Len(srcLines) : KindAt(k) = "bad"
  THEN CHOOSE k \in 1..Len(srcLines) : KindAt(k) = "bad" /\ CleanUpTo(k - 1)
  ELSE 0

(* C21: when ZC_compile stops on an error, the line number it returns is   *)
(* the 1-based number of the source line that holds the error, the blank   *)
(* and comment-only lines before it counted like the instruction lines;    *)
(* with the tokenizer that reads on after a comment, a source with an      *)
(* error line stops on the error of that line.                             *)
C21_ErrorLine ==
  /\ (cpc = "done" /\ err # ZC_ERR_OK) =>
       (FirstBadLine # 0 /\ lineNum = FirstBadLine)
  /\ (cpc = "done" /\ rev = "part_005" /\ FirstBadLine # 0) =>
       (err = Corpus[srcLines[FirstBadLine]].err /\ lineNum = FirstBadLine)

C21_Witness ==
  /\ cpc = "done" /\ srcLines = <<6, 11, 14>> /\ rev = "part_005"
  /\ err = ZC_ERR_INST_FMT /\ lineNum = 3 /\ outS = <<>>

(***************************************************************************)
(* ZC_compile on a source text, and then on the same text in another case. *)
(* cs holds the variant of the second text, which of the two runs is on    *)
(* ("a" or "b") and what the first run returned.                           *)
(***************************************************************************)
IsLower(c) == c \in 97..122

CaseVariants == {"upper", "mixed"}

\* The letters of text in upper case, all of them ("upper") or those at the
\* odd places ("mixed").
CaseVariant(text, v) ==
  [k \in 1..Len(text) |->
     IF IsLower(text[k]) /\ (v = "upper" \/ k % 2 = 1) THEN text[k] - 32 ELSE text[k]]

\* What a run of ZC_compile returned.
RunResult == [outS |-> outS, err |-> err, lineNum |-> lineNum, cpc |-> cpc]

InitCase ==
  /\ rev \in Revisions
  /\ srcLines \in UNION {[1..n -> CaseLines] : n \in 0..MaxLines}
  /\ srcNl \in (IF srcLines = <<>> THEN {TRUE} ELSE BOOLEAN)
  /\ inS = [buf |-> SourceText(srcLines, srcNl), pos |-> 0]
  /\ outS = <<>>
  /\ err = ZC_ERR_OK
  /\ lineNum = 1
  /\ cpc = "run"
  /\ \E v \in CaseVariants : cs = [variant |-> v, phase |-> "a", a |-> IdleRun]
  /\ IdleCodec /\ IdleImm /\ IdleVm /\ IdleTok
  /\ IdleDis /\ IdleZm /\ IdleZf

\* The first run has returned: the second starts on the other text.
Recase ==
  /\ cs.phase = "a"
  /\ cpc \in {"done", "abort"}
  /\ cs' = [cs EXCEPT !.phase = "b", !.a = RunResult]
  /\ \E text \in {SourceText(srcLines, srcNl)} :
       inS' = [buf |-> CaseVariant(text, cs.variant), pos |-> 0]
  /\ outS' = <<>>
  /\ err' = ZC_ERR_OK
  /\ lineNum' = 1
  /\ cpc' = "run"
  /\ UNCHANGED <<srcLines, srcNl, rev, codecVars, immVars, vmVars, tokVars,
                 disVars, zmVars, zfVars>>

NextCase == ZC_compile \/ Recase

SpecCase == InitCase /\ [][NextCase]_vars

(* C23: assembly is case-insensitive: a source text and the same text with *)
(* the case of letters changed (mnemonics, register names, the base        *)
(* markers x and b, hex digits) make ZC_compile write the same bytes and   *)
(* report the same error kind and the same line number.                    *)
C23_CaseInsensitive ==
  (cs.phase = "b" /\ cpc \in {"done", "abort"}) => RunResult = cs.a

C23_Witness ==
  /\ cs.phase = "b" /\ cpc = "done" /\ cs.variant = "upper"
  /\ srcLines = <<5, 17, 19>> /\ rev = "part_005"
  /\ outS = <<100, 143>> /\ err = ZC_ERR_IMM_DIGIT /\ lineNum = 3
  /\ cs.a.outS = <<100, 143>>
  /\ inS.buf[1] = 77

(***************************************************************************)
(* The disassembler.  An output stream is [file, buf, len, err]: buf is    *)
(* what was written (for a memory-backed stream the bytes before           *)
(* data.buf.pos, which is Len(buf)), len the capacity of a memory-backed   *)
(* stream, err the STM_Err_E set by the calls.                             *)
(***************************************************************************)
STM_ERR_OK == 0

STM_ERR_EOF == 1

FileStream == [file |-> TRUE, buf |-> <<>>, len |-> 0, err |-> STM_ERR_OK]

BufStream(len) == [file |-> FALSE, buf |-> <<>>, len |-> len, err |-> STM_ERR_OK]

\* STM_put on an output stream of either kind.
STM_putOut(stream, byte) ==
  IF stream.file THEN [stream EXCEPT !.buf = Append(@, byte)]
  ELSE IF Len(stream.buf) = stream.len THEN [stream EXCEPT !.err = STM_ERR_EOF]
  ELSE [stream EXCEPT !.buf = Append(@, byte)]

\* STM_printf of the formatted text str.  vfprintf writes the characters;
\* vsnprintf writes at most avail - 1 of them and a terminating zero, and
\* the position moves on by ret + 1, the zero included, or by avail when
\* the text did not fit.
STM_printf(stream, str) ==
  IF stream.file THEN [stream EXCEPT !.buf = @ \o str]
  ELSE LET avail == stream.len - Len(stream.buf)
           ret == Len(str)
       IN  IF ret >= avail
           THEN [stream EXCEPT
                   !.buf = IF avail = 0 THEN @
                           ELSE @ \o SubSeq(str, 1, avail - 1) \o <<0>>,
                   !.err = STM_ERR_EOF]
           ELSE [stream EXCEPT !.buf = @ \o str \o <<0>>]

\* A %hhu that prints the last decimal digit only.
FormatU8_lastDigit(n) == <<48 + (n % 10)>>

\* The conversion %hhu: the decimal digits of a byte.
FormatU8(n) ==
  IF n < 10 THEN <<48 + n>>
  ELSE IF n < 100 THEN <<48 + (n \div 10), 48 + (n % 10)>>
  ELSE <<48 + (n \div 100), 48 + ((n \div 10) % 10), 48 + (n % 10)>>

\* ZA_printInst: the mnemonic, then the arguments in a second STM_printf.
ZA_printInst(inst, out) ==
  IF ~ZA_checkInst(inst)
  THEN STM_printf(out, Text(<<";", " ", "i", "n", "v", "a", "l", "i", "d", " ",
                             "i", "n", "s", "t", "r", "u", "c", "t", "i", "o", "n">>))
  ELSE LET named == STM_printf(out, g_ZA_OpNames[inst.op + 1]) IN
       IF named.err # STM_ERR_OK THEN named
       ELSE CASE inst.op = ZA_OP_MOV ->
                   STM_printf(named, <<32, g_ZA_RegNames[inst.r1 + 1],
                                       32, g_ZA_RegNames[inst.r2 + 1]>>)
              [] inst.op = ZA_OP_LDI ->
                   STM_printf(named, <<32, g_ZA_RegNames[inst.r + 1], 32>>
                                       \o FormatU8(inst.i))
              [] inst.op \in {ZA_OP_JEZ, ZA_OP_JNZ} ->
                   STM_printf(named, <<32, g_ZA_RegNames[inst.jmp + 1]>>)
              [] inst.op = ZA_OP_JNI ->
                   STM_printf(named, <<32>> \o FormatU8(inst.imm))
              [] inst.op \in {ZA_OP_HLT, ZA_OP_RST} -> named

\* ZD_disassemble: the loop over the bytes of the input from position i;
\* the end of the input is no error.
RECURSIVE ZD_disassemble(_, _, _)
ZD_disassemble(in, i, out) ==
  IF i > Len(in) THEN out
  ELSE LET printed == ZA_printInst(ZD_parse(in[i]), out)
           ended == STM_putOut(printed, 10)
       IN  IF printed.err # STM_ERR_OK THEN printed
           ELSE IF ended.err # STM_ERR_OK THEN ended
           ELSE ZD_disassemble(in, i + 1, ended)

\* The largest number of bytes given to the disassembler.
MaxProgram == 2

\* The bytes after the first one: mov a a, hlt, ldi a 15, jni 10.
TailBytes == {0, 111, 143, 250}

Programs256 ==
  {<<>>} \cup UNION {{<<b>> \o t : b \in 0..255, t \in [1..n -> TailBytes]} :
                      n \in 0..(MaxProgram - 1)}

\* The output streams: a file, a buffer with room, a buffer too short for
\* one line.
OutStreams == {FileStream, BufStream(64), BufStream(6)}

InitDis ==
  /\ \E b \in Programs256, o \in OutStreams :
       dis = [bytes |-> b, kind |-> o, out |-> o, pc |-> "start"]
  /\ IdleCodec /\ IdleImm /\ IdleAsm /\ IdleVm /\ IdleTok
  /\ IdleCase /\ IdleZm /\ IdleZf

\* ZD_disassemble runs; when it ends without error, what it wrote is the
\* source text of the ZC_compile that follows.
Disassemble ==
  /\ dis.pc = "start"
  /\ \E res \in {ZD_disassemble(dis.bytes, 1, dis.out)} :
       /\ dis' = [dis EXCEPT !.out = res, !.pc = "done"]
       /\ IF res.err = STM_ERR_OK
          THEN inS' = [buf |-> res.buf, pos |-> 0] /\ cpc' = "run"
          ELSE UNCHANGED <<inS, cpc>>
  /\ UNCHANGED <<srcLines, srcNl, outS, err, lineNum, rev>>
  /\ UNCHANGED <<codecVars, immVars, vmVars, tokVars, caseVars, zmVars, zfVars>>

NextDis == Disassemble \/ ZC_compile

SpecDis == InitDis /\ [][NextDis]_vars

\* The number of newlines of a text.
Newlines(text) == Cardinality({k \in 1..Len(text) : text[k] = 10})

(* C24: for every byte sequence B, ZD_disassemble writes one newline-      *)
(* terminated line per byte and ends without error, and ZC_compile on the  *)
(* text it wrote reports no error and writes exactly the bytes of B.       *)
C24_RoundTripText ==
  /\ (dis.pc = "done" /\ dis.kind.file) =>
       /\ dis.out.err = STM_ERR_OK
       /\ Newlines(dis.out.buf) = Len(dis.bytes)
       /\ dis.bytes # <<>> => dis.out.buf[Len(dis.out.buf)] = 10
       /\ cpc # "abort"
       /\ err = ZC_ERR_OK
       /\ outS = SubSeq(dis.bytes, 1, Len(outS))
  /\ (dis.pc = "done" /\ dis.kind.file /\ cpc = "done") => outS = dis.bytes

C24_Witness ==
  /\ dis.pc = "done" /\ dis.kind.file /\ cpc = "done"
  /\ dis.bytes = <<126, 143>> /\ outS = <<126, 143>> /\ err = ZC_ERR_OK
  /\ dis.out.buf = Text(<<"j", "e", "z", " ", "p", "\n",
                          "l", "d", "i", " ", "a", " ", "1", "5", "\n">>)

(* C25: what ZD_disassemble writes does not depend on the kind of the      *)
(* output stream: on a memory-backed stream with enough capacity the       *)
(* output is byte for byte the text written to a file-backed stream, one   *)
(* newline-terminated line per input byte and no other bytes.              *)
C25_SameOutput ==
  (dis.pc = "done" /\ ~dis.kind.file /\ dis.kind.len = 64) =>
    /\ dis.out.err = STM_ERR_OK
    /\ dis.out.buf = ZD_disassemble(dis.bytes, 1, FileStream).buf

(***************************************************************************)
(* The microcode translator of zasmm.c.  ZM_Code_T is the output-enable    *)
(* signals out[0..11], the input signals in[0..7] and alu, jmp, rst, hlt,  *)
(* ins; oob tells that an element past the end of out was written.         *)
(***************************************************************************)
ZM_NoCode ==
  [out |-> [k \in 0..11 |-> FALSE], in |-> [k \in 0..7 |-> FALSE],
   alu |-> FALSE, jmp |-> FALSE, rst |-> FALSE, hlt |-> FALSE, ins |-> FALSE,
   oob |-> FALSE]

ZM_setOut(code, r) ==
  IF r = ZA_REG_N \/ r = ZA_REG_Z THEN code
  ELSE IF r = ZA_REG_D THEN [code EXCEPT !.out[ZA_REG_S] = TRUE, !.alu = TRUE]
  ELSE IF r \in 0..11 THEN [code EXCEPT !.out[r] = TRUE]
  ELSE [code EXCEPT !.oob = TRUE]

\* inst.val.mov.r2 as ZM_translate reads it.  ZA_Args_T is a union: mov is
\* two ZA_Reg_E, r1 and r2, and jmp is one ZA_Reg_E that shares its bytes
\* with mov.r1.  ZD_parse builds a jump with ".val.jmp = ..." only, so the
\* bytes of mov.r2 hold an unspecified value, unspec.
ZA_movR2(inst, unspec) == IF inst.op = ZA_OP_MOV THEN inst.r2 ELSE unspec

ZM_translate(inst, unspec) ==
  CASE inst.op = ZA_OP_MOV ->
         IF inst.r1 = inst.r2 THEN ZM_NoCode
         ELSE ZM_setOut([ZM_NoCode EXCEPT !.in[inst.r1] = TRUE], inst.r2)
    [] inst.op = ZA_OP_LDI -> [ZM_NoCode EXCEPT !.in[inst.r] = TRUE, !.ins = TRUE]
    [] inst.op = ZA_OP_JEZ ->
         ZM_setOut([ZM_NoCode EXCEPT !.jmp = TRUE, !.in[ZA_REG_P] = TRUE],
                   ZA_movR2(inst, unspec))
    [] inst.op = ZA_OP_JNZ ->
         ZM_setOut([ZM_NoCode EXCEPT !.in[ZA_REG_P] = TRUE], ZA_movR2(inst, unspec))
    [] inst.op = ZA_OP_JNI -> [ZM_NoCode EXCEPT !.ins = TRUE, !.in[ZA_REG_P] = TRUE]
    [] inst.op = ZA_OP_HLT -> [ZM_NoCode EXCEPT !.hlt = TRUE]
    [] inst.op = ZA_OP_RST -> [ZM_NoCode EXCEPT !.rst = TRUE]

\* The values the unset bytes of the union can hold: the register codes
\* and two values that are none.
UnspecRegs == 0..15

InitZm ==
  /\ \E b \in 0..255, u \in UnspecRegs :
       zm = [pc |-> "start", byte |-> b, unspec |-> u,
             inst |-> NoArgInst(ZA_OP_HLT), code |-> ZM_NoCode]
  /\ IdleCodec /\ IdleImm /\ IdleAsm /\ IdleVm /\ IdleTok
  /\ IdleCase /\ IdleDis /\ IdleZf

\* ZM_macrocode up to the call of ZM_translate: the byte is decoded and
\* the instruction translated.
Translate ==
  /\ zm.pc = "start"
  /\ zm' = [zm EXCEPT !.pc = "done",
                      !.inst = ZD_parse(zm.byte),
                      !.code = ZM_translate(ZD_parse(zm.byte), zm.unspec)]
  /\ UNCHANGED <<codecVars, immVars, asmVars, vmVars, tokVars,
                 caseVars, disVars, zfVars>>

NextZm == Translate

SpecZm == InitZm /\ [][NextZm]_vars

(* C30: for every byte that decodes to JumpIfZero r or JumpIfNotZero r,    *)
(* ZM_translate asserts the program-counter input signal and the output-   *)
(* enable signal of the register r the decoder produced, and for           *)
(* JumpIfZero the condition signal as well.                                *)
C30_JumpSignals ==
  (zm.pc = "done" /\ zm.inst.op \in {ZA_OP_JEZ, ZA_OP_JNZ}) =>
    /\ ~zm.code.oob
    /\ zm.code.in = [ZM_NoCode.in EXCEPT ![ZA_REG_P] = TRUE]
    /\ zm.code.out = ZM_setOut(ZM_NoCode, zm.inst.jmp).out
    /\ zm.code.alu = ZM_setOut(ZM_NoCode, zm.inst.jmp).alu
    /\ zm.code.jmp = (zm.inst.op = ZA_OP_JEZ)
    /\ ~zm.code.rst /\ ~zm.code.hlt /\ ~zm.code.ins

(***************************************************************************)
(* The flash tool zasmf.c and the firmware of the programmer.  A buffer    *)
(* is the sequence of the bytes stored in it so far, byte k of the array   *)
(* at index k + 1; no code reads an element of a buffer before one was     *)
(* stored there.                                                           *)
(***************************************************************************)
U16(x) == x % 65536

\* x with the bit of weight p inverted.
FlipBit(x, p) == IF (x \div p) % 2 = 1 THEN x - p ELSE x + p

\* hash ^ 0x8005 on 16 bits: bits 15, 2 and 0 are inverted.
Xor8005(hash) == FlipBit(FlipBit(FlipBit(hash, 32768), 4), 1)

BitWeights == <<1, 2, 4, 8, 16, 32, 64, 128, 256, 512, 1024, 2048, 4096, 8192, 16384, 32768>>

\* The loop of ZF_crc16Update (and of crc16Update of the firmware, which
\* is the same code) from bit i on.
\* One iteration of that loop.
\* hash >> 15 is not zero when hash is at least 2^15; hash << 1 has bit 0
\* clear, so that or-ing bit i of byte into it adds it.
ZF_crc16UpdateBit(byte, hash, i) ==
  IF hash >= 32768
    THEN Xor8005(U16(2 * hash) + ((byte \div BitWeights[i + 1]) % 2))
    ELSE U16(2 * hash) + ((byte \div BitWeights[i + 1]) % 2)

RECURSIVE ZF_crc16UpdateLoop(_, _, _)
ZF_crc16UpdateLoop(byte, hash, i) ==
  IF i = 8 THEN hash
  ELSE CHOOSE r \in {ZF_crc16UpdateLoop(byte, h, i + 1) :
                        h \in {ZF_crc16UpdateBit(byte, hash, i)}} : TRUE

ZF_crc16Update(byte, hash) == ZF_crc16UpdateLoop(byte, hash, 0)

\* The second loop of ZF_crc16Finalize: bit 15 - k of hash is bit k of crc.
BitReverse16(hash) ==
  LET bit(k) == IF (hash \div BitWeights[16 - k]) % 2 = 1 THEN BitWeights[k + 1] ELSE 0
  IN  bit(0) + bit(1) + bit(2) + bit(3) + bit(4) + bit(5) + bit(6) + bit(7)
        + bit(8) + bit(9) + bit(10) + bit(11) + bit(12) + bit(13) + bit(14) + bit(15)

ZF_crc16Finalize(hash) ==
  BitReverse16(ZF_crc16Update(0, ZF_crc16Update(0, hash)))

\* The loop of ZF_crc16 over data[lo] .. data[hi - 1], in that order, from
\* the hash h; the range is halved to keep the evaluation
\* shallow.  Here and below, CHOOSE r \in {F(x) : x \in {e}} : TRUE is F(e)
\* with e evaluated once.
RECURSIVE ZF_crc16Range(_, _, _, _)
ZF_crc16Range(data, lo, hi, h) ==
  IF hi <= lo THEN h
  ELSE IF hi = lo + 1 THEN ZF_crc16Update(data[lo + 1], h)
  ELSE LET mid == (lo + hi) \div 2
       IN  CHOOSE r \in {ZF_crc16Range(data, mid, hi, left) :
                            left \in {ZF_crc16Range(data, lo, mid, h)}} : TRUE

ZF_crc16Hash(data, len) ==
  CHOOSE r \in {ZF_crc16Range(d, 0, len, 0) : d \in {data}} : TRUE

ZF_crc16(data, len) == ZF_crc16Finalize(ZF_crc16Hash(data, len))

\* The firmware: crc16Finalize shifts sixteen times, with no bit or-ed in.
RECURSIVE crc16FinalizeLoop(_, _)
crc16FinalizeLoop(hash, i) ==
  IF i = 16 THEN hash
  ELSE CHOOSE r \in {crc16FinalizeLoop(h, i + 1) :
                        h \in {IF hash >= 32768 THEN Xor8005(U16(2 * hash))
                                                 ELSE U16(2 * hash)}} : TRUE

crc16Finalize(hash) == BitReverse16(crc16FinalizeLoop(hash, 0))

crc16(buf, len) == crc16Finalize(ZF_crc16Hash(buf, len))

(***************************************************************************)
(* The host side of the flash protocol: zasmf.h and zasmf.c.  The calls    *)
(* read, write and tcflush are taken not to fail.  The two calls of        *)
(* ZF_getc in ZF_parseHash are taken in the order they are written, which  *)
(* is the order clang, the compiler of the build script, evaluates them.   *)
(***************************************************************************)
ZF_BUF_SIZE == 260

ZF_ERR_OK == 0
ZF_ERR_PROTOCOL == 1

ZF_PROTOCOL_ERR_START_BYTE == 0
ZF_PROTOCOL_ERR_OP == 1
ZF_PROTOCOL_ERR_CRC == 2

ZF_RCV_STATE_NONE == 0
ZF_RCV_STATE_OP == 1
ZF_RCV_STATE_CRC == 2

ZF_OP_PING == 0
ZF_OP_SEND_LOW == 1
ZF_OP_SEND_HIGH == 2
ZF_OP_ACK == 3

ZF_NoErr == [err |-> ZF_ERR_OK, code |-> 0]

ZF_ProtocolErr(code) == [err |-> ZF_ERR_PROTOCOL, code |-> code]

\* The context ZF_open returns.
ZF_open ==
  [rcvState |-> ZF_RCV_STATE_NONE, bufPos |-> 0, bufLen |-> 0, buf |-> <<>>]

\* The bytes buf[0] .. buf[bufLen - 1] of a context, as a sequence.
BufSeq(c) == SubSeq(c.buf, 1, c.bufLen)

\* memcpy(buf + off, bytes, Len(bytes)); the elements of the static array
\* of the firmware that were never stored are zero.
Load(buf, off, bytes) ==
  IF bytes = <<>> THEN buf
  ELSE (IF off <= Len(buf) THEN SubSeq(buf, 1, off)
                           ELSE buf \o [k \in 1..(off - Len(buf)) |-> 0])
         \o bytes \o SubSeq(buf, off + Len(bytes) + 1, Len(buf))

\* ZF_readTty when read returns bytes.
ZF_readTty(c, bytes) ==
  [c EXCEPT !.buf = Load(c.buf, c.bufLen, bytes), !.bufLen = c.bufLen + Len(bytes)]

\* The fields ZF_clearTty resets; what tcflush does to the line is part of
\* the actions.
ZF_clearTty(c) ==
  [c EXCEPT !.bufPos = 0, !.bufLen = 0, !.rcvState = ZF_RCV_STATE_NONE]

ZF_parseMagic(c, e) ==
  IF c.buf[c.bufPos + 1] = 170
    THEN [ctx |-> [c EXCEPT !.bufPos = c.bufPos + 1, !.rcvState = ZF_RCV_STATE_OP],
          err |-> e]
    ELSE [ctx |-> [c EXCEPT !.bufPos = c.bufPos + 1],
          err |-> ZF_ProtocolErr(ZF_PROTOCOL_ERR_START_BYTE)]

ZF_parseOp(c, e) ==
  IF c.buf[c.bufPos + 1] = ZF_OP_ACK
    THEN [ctx |-> [c EXCEPT !.bufPos = c.bufPos + 1, !.rcvState = ZF_RCV_STATE_CRC],
          err |-> e]
    ELSE [ctx |-> [c EXCEPT !.bufPos = c.bufPos + 1],
          err |-> ZF_ProtocolErr(ZF_PROTOCOL_ERR_OP)]

\* ZF_parseHash that compares nothing.
ZF_parseHash_noCompare(c, e) ==
  [ctx |-> ZF_clearTty([c EXCEPT !.bufPos = c.bufPos + 2]), err |-> e]

ZF_parseHash(c, e) ==
  LET crc  == BitOr(Shl(c.buf[c.bufPos + 1], 8), c.buf[c.bufPos + 2])
      pos  == c.bufPos + 2
      hash == ZF_crc16(c.buf, pos - 2)
  IN  [ctx |-> ZF_clearTty([c EXCEPT !.bufPos = pos]),
       err |-> IF crc # hash THEN ZF_ProtocolErr(ZF_PROTOCOL_ERR_CRC) ELSE e]

\* The loop of ZF_poll, after ZF_readTty.
RECURSIVE ZF_pollLoop(_, _)
ZF_pollLoop(c, e) ==
  LET avail == c.bufLen - c.bufPos
  IN  IF e.err # ZF_ERR_OK THEN [ctx |-> ZF_clearTty(c), err |-> e, ret |-> FALSE]
      ELSE IF avail = 0 THEN [ctx |-> c, err |-> e, ret |-> FALSE]
      ELSE IF c.rcvState = ZF_RCV_STATE_NONE
        THEN CHOOSE p \in {ZF_pollLoop(r.ctx, r.err) : r \in {ZF_parseMagic(c, e)}} : TRUE
      ELSE IF c.rcvState = ZF_RCV_STATE_OP
        THEN CHOOSE p \in {ZF_pollLoop(r.ctx, r.err) : r \in {ZF_parseOp(c, e)}} : TRUE
      ELSE IF avail < 2 THEN [ctx |-> c, err |-> e, ret |-> FALSE]
      ELSE CHOOSE p \in {[ctx |-> r.ctx, err |-> r.err, ret |-> r.err.err = ZF_ERR_OK] :
                            r \in {ZF_parseHash(c, e)}} : TRUE

\* ZF_poll when read returns bytes.
ZF_poll(c, bytes) ==
  CHOOSE p \in {ZF_pollLoop(c1, ZF_NoErr) : c1 \in {ZF_readTty(c, bytes)}} : TRUE

ZF_putc(c, byte) ==
  [c EXCEPT !.buf = Load(c.buf, c.bufLen, <<byte>>), !.bufLen = c.bufLen + 1]

\* ZF_writeTty: sent is what write is given.
ZF_writeTty(c) ==
  CHOOSE r \in {[ctx |-> ZF_clearTty(c1), sent |-> BufSeq(c1)] :
                  c1 \in {ZF_putc(ZF_putc(c, Shr(crc, 8)), BitAnd(crc, 255)) :
                            crc \in {ZF_crc16(c.buf, c.bufLen)}}} : TRUE

ZF_ping(c) ==
  CHOOSE r \in {ZF_writeTty(c1) : c1 \in {ZF_putc(ZF_putc(c, 170), ZF_OP_PING)}} : TRUE

\* data is a sequence of 256 bytes.
ZF_write(c, data, page) ==
  LET c1 == ZF_putc(ZF_putc(c, 170), IF page THEN ZF_OP_SEND_HIGH ELSE ZF_OP_SEND_LOW)
  IN  CHOOSE r \in {ZF_writeTty(c2) :
                      c2 \in {[c1 EXCEPT !.buf = Load(c1.buf, 2, data),
                                         !.bufLen = 258]}} : TRUE

(***************************************************************************)
(* The firmware of the programmer: nano.ino, and the revision that reads   *)
(* the page back after writing it.                                         *)
(***************************************************************************)
Firmwares == {"nano.ino", "part_000"}

OP_PING == 0
OP_SEND_LOW == 1
OP_SEND_HIGH == 2

\* Op_E of nano.ino.
OP_ACK == 3

\* Op_E of the firmware that reads back.
OP_READ_LOW == 3
OP_READ_HIGH == 4
OP_ACK_readBack == 5
OP_BAD_WRITE == 6

\* The packet of nano.ino with another last byte.
Ack_otherCrc == <<170, OP_ACK, 161, 63>>

\* Ack of nano.ino.
Ack == <<170, OP_ACK, 161, 62>>

\* checkHash of nano.ino and checkHash(true) of the other firmware.
checkHash(buf) ==
  LET hash == crc16(buf, 258)
  IN  Shr(hash, 8) = buf[259] /\ BitAnd(hash, 255) = buf[260]

\* checkHash(false).
checkHashHeader(buf) ==
  LET hash == crc16(buf, 2)
  IN  Shr(hash, 8) = buf[3] /\ BitAnd(hash, 255) = buf[4]

\* makeHash(data).
makeHash(buf, data) ==
  IF data
    THEN LET hash == crc16(buf, 258)
         IN  Load(buf, 258, <<Shr(hash, 8), BitAnd(hash, 255)>>)
    ELSE LET hash == crc16(buf, 2)
         IN  Load(buf, 2, <<Shr(hash, 8), BitAnd(hash, 255)>>)

\* The 256 data bytes of a buffer.
BufData(buf) == SubSeq(buf, 3, 258)

\* readBuf: the page the EEPROM returns goes to buf[2] .. buf[257].
readBuf(buf, page) == Load(buf, 2, page)

\* What the EEPROM returns for a stored page: the page, or, when the part
\* did not take the write, a page that differs in its first byte.
ReadBack(page, good) ==
  IF good THEN page ELSE <<(page[1] + 1) % 256>> \o SubSeq(page, 2, 256)

\* loadData(off, len) with the bytes of line waiting, of which the first
\* off were read before: it stores what there is, up to len bytes.
loadData(buf, off, len, line) ==
  Load(buf, off, SubSeq(line, off + 1, IF Len(line) < off + len THEN Len(line) ELSE off + len))

\* loop of nano.ino once n bytes wait on the line: buf1 is the buffer after
\* loadData(0, 4), buf2 after loadData(4, 256); f is the state of the
\* firmware, reply what Serial.write is given.
loop_nanoLoaded(f, n, buf1, buf2) ==
  LET high == buf1[2] = OP_SEND_HIGH
      drop(b) == [f EXCEPT !.buf = b, !.last = "drop", !.reply = <<>>]
  IN  IF n < 4 THEN drop(buf1)
      ELSE IF buf1[1] # 170 THEN drop(buf1)
      ELSE IF buf1[2] = OP_PING
        THEN IF buf1[3] # 160 \/ buf1[4] # 126 THEN drop(buf1)
             ELSE [f EXCEPT !.buf = buf1, !.last = "ack", !.reply = Ack]
      ELSE IF buf1[2] \in {OP_SEND_LOW, OP_SEND_HIGH}
        THEN IF n < 260 THEN drop(buf2)
             ELSE IF ~checkHash(buf2) THEN drop(buf2)
             ELSE [f EXCEPT !.buf = buf2, !.last = "ack", !.reply = Ack,
                            !.eeprom = [f.eeprom EXCEPT ![high] = BufData(buf2)]]
      ELSE drop(buf1)

\* One pass of loop of nano.ino.
loop_nano(f, line) ==
  CHOOSE r \in {loop_nanoLoaded(f, Len(line), b[1], b[2]) :
                  b \in {<<buf1, loadData(buf1, 4, 256, line)>> :
                           buf1 \in {loadData(f.buf, 0, 4, line)}}} : TRUE

\* The page write of the firmware that reads back, after checkHash(true)
\* passed on buf2: stored is what the EEPROM returns, buf3 the buffer after
\* readBuf.
loop_verify(f, high, stored, buf3) ==
  LET ok   == checkHash(buf3)
      buf4 == makeHash(Load(buf3, 1, <<IF ok THEN OP_ACK_readBack ELSE OP_BAD_WRITE>>),
                       FALSE)
  IN  [f EXCEPT !.buf = buf4, !.last = IF ok THEN "ack" ELSE "bad_write",
                !.reply = SubSeq(buf4, 1, 4),
                !.eeprom = [f.eeprom EXCEPT ![high] = stored]]

\* loop of the firmware that reads back, with buf1 and buf2 as above; good
\* tells whether the EEPROM returns what it was given.
loop_readBackLoaded(f, n, buf1, buf2, good) ==
  LET op == buf1[2]
      drop(b) == [f EXCEPT !.buf = b, !.last = "drop", !.reply = <<>>]
      send(b, len, last) == [f EXCEPT !.buf = b, !.last = last, !.reply = SubSeq(b, 1, len)]
  IN  IF n < 4 THEN drop(buf1)
      ELSE IF buf1[1] # 170 THEN drop(buf1)
      ELSE IF op = OP_PING
        THEN IF ~checkHashHeader(buf1) THEN drop(buf1)
             ELSE CHOOSE r \in {send(b, 4, "ack") :
                                  b \in {makeHash(Load(buf1, 1, <<OP_ACK_readBack>>), FALSE)}} : TRUE
      ELSE IF op \in {OP_SEND_LOW, OP_SEND_HIGH}
        THEN IF n < 260 THEN drop(buf2)
             ELSE IF ~checkHash(buf2) THEN drop(buf2)
             ELSE CHOOSE r \in {loop_verify(f, op = OP_SEND_HIGH, stored, readBuf(buf2, stored)) :
                                  stored \in {ReadBack(BufData(buf2), good)}} : TRUE
      ELSE IF op \in {OP_READ_LOW, OP_READ_HIGH}
        THEN IF ~checkHashHeader(buf1) THEN drop(buf1)
             ELSE CHOOSE r \in {send(b, 260, "data") :
                                  b \in {makeHash(Load(readBuf(buf1, f.eeprom[op = OP_READ_HIGH]),
                                                      1, <<OP_SEND_LOW>>), TRUE)}} : TRUE
      ELSE drop(buf1)

\* One pass of loop of the firmware that reads back.
loop_readBack(f, line, good) ==
  CHOOSE r \in {loop_readBackLoaded(f, Len(line), b[1], b[2], good) :
                  b \in {<<buf1, loadData(buf1, 4, 256, line)>> :
                           buf1 \in {loadData(f.buf, 0, 4, line)}}} : TRUE

(***************************************************************************)
(* The host and the programmer on the two directions of the serial line.   *)
(* zfh records what the calls of the host did: the number of packets sent, *)
(* the last one (its kind, its data, what write was given, how much of it  *)
(* reached the line), and, since that packet, the bytes read, the reads    *)
(* that returned bytes, the polls that returned true and those that ended  *)
(* with an error; of the last poll, the result, the error and the bytes in *)
(* the buffer after its read.                                              *)
(***************************************************************************)
MaxCmds == 2

MaxRx == 5

PageZero == [k \in 1..256 |-> 0]

PageRamp == [k \in 1..256 |-> k - 1]

\* The pages the host writes; the EEPROM starts with PageZero.
Pages == {PageRamp}

\* The bytes a line that is not the programmer may carry.
RxBytes == {170, 3, 161, 62}

\* tcflush follows write at once: the packet reaches the line whole, or
\* only its first two bytes, or not at all.
FlushCuts(packet) == {0, 2, Len(packet)}

NoHistory ==
  [cmds |-> 0, cmd |-> "none", data |-> <<>>, sent |-> <<>>, cut |-> 0,
   rx |-> 0, reads |-> 0, acks |-> 0, errs |-> 0,
   ret |-> FALSE, err |-> ZF_NoErr, frame |-> <<>>]

IdleRest ==
  /\ IdleCodec /\ IdleImm /\ IdleAsm /\ IdleVm /\ IdleTok
  /\ IdleCase /\ IdleDis /\ IdleZm

restVars == <<codecVars, immVars, asmVars, vmVars, tokVars, caseVars, disVars, zmVars>>

InitFlash ==
  /\ ctx = ZF_open
  /\ toDev = <<>>
  /\ toHost = <<>>
  /\ \E r \in Firmwares :
       fw = [rev |-> r, buf |-> <<>>, eeprom |-> [h \in BOOLEAN |-> PageZero],
             last |-> "none", reply |-> <<>>]
  /\ zfh = NoHistory
  /\ IdleRest

\* The host with a line that carries any bytes.
InitPoll ==
  /\ ctx = ZF_open
  /\ toDev = <<>>
  /\ \E n \in 0..MaxRx : toHost \in [1..n -> RxBytes]
  /\ fw = [pc |-> "idle"]
  /\ zfh = NoHistory
  /\ IdleRest

\* A packet leaves: tcflush may cut it, and may drop what waits to be read.
Transmit(r, cmd, data) ==
  /\ ctx' = r.ctx
  /\ \E cut \in FlushCuts(r.sent) :
       /\ toDev' = toDev \o SubSeq(r.sent, 1, cut)
       /\ zfh' = [NoHistory EXCEPT !.cmds = zfh.cmds + 1, !.cmd = cmd, !.data = data,
                                   !.sent = r.sent, !.cut = cut]
  /\ toHost' \in {toHost, <<>>}
  /\ UNCHANGED <<fw, restVars>>

Ping ==
  /\ zfh.cmds < MaxCmds
  /\ \E r \in {ZF_ping(ctx)} : Transmit(r, "ping", <<>>)

WritePage ==
  /\ zfh.cmds < MaxCmds
  /\ \E data \in Pages, page \in BOOLEAN :
       \E r \in {ZF_write(ctx, data, page)} :
         Transmit(r, IF page THEN "high" ELSE "low", data)

\* ZF_poll; read returns the first k of the bytes on the line.
Poll ==
  \E k \in 0..Len(toHost) :
    /\ k <= ZF_BUF_SIZE - ctx.bufLen
    /\ \E bytes \in {SubSeq(toHost, 1, k)} : \E r \in {ZF_poll(ctx, bytes)} :
           /\ ctx' = r.ctx
           /\ toHost' = SubSeq(toHost, k + 1, Len(toHost))
           /\ zfh' = [zfh EXCEPT !.rx = zfh.rx + k,
                                 !.reads = zfh.reads + (IF k > 0 THEN 1 ELSE 0),
                                 !.acks = zfh.acks + (IF r.ret THEN 1 ELSE 0),
                                 !.errs = zfh.errs + (IF r.err.err # ZF_ERR_OK THEN 1 ELSE 0),
                                 !.ret = r.ret, !.err = r.err,
                                 !.frame = BufSeq(ZF_readTty(ctx, bytes))]
    /\ UNCHANGED <<toDev, fw, restVars>>

\* One pass of loop of the firmware, which ends by reading the line empty.
FirmwareLoop ==
  /\ toDev # <<>>
  /\ \/ fw.rev = "nano.ino" /\ fw' = loop_nano(fw, toDev)
     \/ fw.rev = "part_000" /\ \E good \in BOOLEAN : fw' = loop_readBack(fw, toDev, good)
  /\ toHost' = toHost \o fw'.reply
  /\ toDev' = <<>>
  /\ UNCHANGED <<ctx, zfh, restVars>>

NextFlash == Ping \/ WritePage \/ Poll \/ FirmwareLoop

SpecFlash == InitFlash /\ [][NextFlash]_vars

NextPoll == Poll

SpecPoll == InitPoll /\ [][NextPoll]_vars

\* The packets the protocol prescribes, with the CRC16 of the bytes before
\* it, high byte first.
Packet(bytes) ==
  CHOOSE p \in {bytes \o <<crc \div 256, crc % 256>> :
                  crc \in {ZF_crc16(bytes, Len(bytes))}} : TRUE

PingPacket == Packet(<<170, ZF_OP_PING>>)

AckPacket == Packet(<<170, ZF_OP_ACK>>)

WritePacket ==
  [cmd \in {"low", "high"} |->
     [data \in Pages |->
        Packet(<<170, IF cmd = "high" THEN ZF_OP_SEND_HIGH ELSE ZF_OP_SEND_LOW>> \o data)]]

\* C26 (as amended): ZF_poll returns true only when the first four of the
\* bytes received since the receive state was last cleared are 0xAA, the
\* ACK operation code and the CRC16 of those two bytes, 0xA13E, high byte
\* first, and no error is reported; and, however the reads were split, it
\* returns true as soon as four such bytes are in the buffer.  Bytes that
\* the same read returned after the fourth are dropped with the packet.
C26_PollAccepts ==
  LET valid == /\ Len(zfh.frame) >= 4
               /\ SubSeq(zfh.frame, 1, 4) = <<170, 3, 161, 62>>
               /\ SubSeq(zfh.frame, 1, 4) = AckPacket
  IN  /\ zfh.ret => (valid /\ zfh.err = ZF_NoErr /\ ctx = ZF_clearTty(ctx))
      /\ valid => zfh.ret

\* The four bytes of an ACK, read one, two and one at a time.
C26_Witness ==
  /\ zfh.ret /\ zfh.frame = <<170, 3, 161, 62>> /\ zfh.reads = 3 /\ zfh.rx = 4
  /\ toHost = <<170>> /\ ctx.bufLen = 0

\* C26 as stated: ZF_poll returns true only when the bytes received since
\* the last clear are exactly the four bytes of an ACK.
C26_PollAcceptsExactly == zfh.ret => zfh.frame = AckPacket

\* C27: every packet the host hands to write is well formed, whatever the
\* state of the context: ZF_ping sends 0xAA, PING and the CRC, ZF_write
\* 0xAA, SEND_LOW or SEND_HIGH, the 256 data bytes and the CRC.
C27_WellFormed ==
  /\ zfh.cmd = "ping" => zfh.sent = PingPacket
  /\ zfh.cmd \in {"low", "high"} => zfh.sent = WritePacket[zfh.cmd][zfh.data]

\* The first packet of the host reached the programmer whole and alone.
FirstIntact(firmware, cmds) ==
  /\ fw.rev = firmware
  /\ zfh.cmds = 1
  /\ zfh.cmd \in cmds
  /\ zfh.cut = Len(zfh.sent)

\* C28: after the first ZF_ping, from the context ZF_open returns, reached
\* nano.ino whole, the firmware accepts it and replies with Ack; while
\* fewer than the four bytes of the reply were read, ZF_poll reports
\* neither an ACK nor an error, and the poll that reads the fourth byte
\* returns true with no error, however the reply was split over the reads.
C28_PingAcked ==
  FirstIntact("nano.ino", {"ping"}) =>
    /\ zfh.sent = <<170, 0, 160, 126>>
    /\ fw.last # "none" => (fw.last = "ack" /\ fw.reply = <<170, 3, 161, 62>>)
    /\ zfh.errs = 0
    /\ zfh.rx < 4 => zfh.acks = 0
    /\ zfh.rx = 4 => (zfh.acks = 1 /\ ctx = ZF_clearTty(ctx))
    /\ (zfh.rx = 4 /\ zfh.reads > 0 /\ zfh.frame # <<>>) => (zfh.ret /\ zfh.err = ZF_NoErr)

\* The reply to the ping, read in four reads of one byte.
C28_Witness ==
  /\ FirstIntact("nano.ino", {"ping"})
  /\ fw.last = "ack"
  /\ zfh.rx = 4 /\ zfh.reads = 4 /\ zfh.ret /\ zfh.acks = 1 /\ zfh.err = ZF_NoErr
  /\ toHost = <<>>

\* C29: once the firmware that reads back has acknowledged the first packet
\* of the host, a ping or a page write it verified, ZF_poll reports no
\* error, and returns true when the four bytes of the reply were read.
C29_AckAccepted ==
  (FirstIntact("part_000", {"ping", "low", "high"}) /\ fw.last = "ack") =>
    /\ zfh.errs = 0
    /\ zfh.rx = 4 => zfh.acks = 1

(***************************************************************************)
(* The simulator: main loads the program store and calls ZS_new; the       *)
(* commands of the interactive loop call ZS_exec, ZS_new and set the       *)
(* buttons.                                                                *)
(***************************************************************************)
\* ZS_new fills r and mem with rand() & 0xFF: any bytes.  The fillings
\* tried are these, one for each seed.
Seeds == {0, 37, 255}

RandRegs(seed) == [k \in 0..6 |-> U8(seed * (k + 3))]

RandMem(seed) == [a \in 0..255 |-> U8(7 * a + seed)]

\* The values tried for the buttons, which main leaves uninitialised and
\* the command 'b' sets.
ButtonValues == {0, 255}

\* A program store that starts with the bytes of head and ends with the
\* byte last at address 255; the bytes in between are 0.
ProgramRom(head, last) ==
  [a \in 0..255 |-> IF a < Len(head) THEN head[a + 1]
                    ELSE IF a = 255 THEN last ELSE 0]

\* rst, hlt; rst, rst; and 'jnz b' with 'ldi a 1' at the last address.
Programs ==
  {ProgramRom(<<127, 111>>, 0), ProgramRom(<<127, 127>>, 0), ProgramRom(<<120>>, 129)}

\* The program stores tried: every byte value stands at address 0 of one of
\* them, followed by the next byte values; and the programs above.
Roms == {[a \in 0..255 |-> U8(a + k)] : k \in 0..255} \cup Programs

ZS_new(st, seed) ==
  [st EXCEPT !.halted = FALSE, !.pc = 0, !.r = RandRegs(seed), !.mem = RandMem(seed)]

InitVm ==
  /\ \E rom \in Roms, seed \in Seeds, b \in ButtonValues :
       state = ZS_new([ZeroState EXCEPT !.rom = rom, !.b = b], seed)
  /\ prev = state
  /\ lastCmd = "new"
  /\ steps = 0
  /\ IdleCodec /\ IdleImm /\ IdleAsm /\ IdleTok /\ IdleTools

\* Command 's': one call of ZS_exec.
Step ==
  /\ steps < MaxSteps
  /\ \A reg \in ZS_execReads(state) : ZS_getRegAsserts(reg)
  /\ prev' = state
  /\ state' = ZS_exec(state)
  /\ lastCmd' = "exec"
  /\ steps' = steps + 1
  /\ UNCHANGED <<codecVars, immVars, asmVars, tokVars, toolVars>>

\* Command 'r': ZS_new.
NewState ==
  /\ \E seed \in Seeds : state' = ZS_new(state, seed)
  /\ prev' = state'
  /\ lastCmd' = "new"
  /\ steps' = 0
  /\ UNCHANGED <<codecVars, immVars, asmVars, tokVars, toolVars>>

\* Command 'b': the buttons are set.
SetButtons ==
  /\ \E v \in ButtonValues : state' = [state EXCEPT !.b = v]
  /\ prev' = state'
  /\ lastCmd' = "buttons"
  /\ UNCHANGED <<steps, codecVars, immVars, asmVars, tokVars, toolVars>>

NextVm == Step \/ NewState \/ SetButtons

SpecVm == InitVm /\ [][NextVm]_vars

\* ------------------------------------------------------------------------
\* Claims about ZS_exec.  After a call, prev is the state it started from
\* and state the state it left.
\* ------------------------------------------------------------------------
\* The byte the last call of ZS_exec fetched.
Fetched == prev.rom[prev.pc]

\* The last command was a call of ZS_exec on a processor that was running.
Executed == lastCmd = "exec" /\ ~prev.halted

\* A fetched byte is a Move: top bit clear, source code below 14, destination
\* code below 7.
IsMoveByte(b) == b < 128 /\ b % 16 < 14 /\ b \div 16 < 7

\* A fetched byte is a LoadImmediate: top bit set, destination code below 7.
IsLdiByte(b) == b >= 128 /\ b < 240

\* C9: a step that executes a Move byte writes the source value to exactly
\* one location, memory[Address] when the destination is Memory (code 3) and
\* the destination's register slot otherwise; a source of Memory reads
\* memory[Address]; no other register slot, no other memory cell and not the
\* halt flag changes.
C9_MoveWritesOneLocation ==
  (Executed /\ IsMoveByte(Fetched)) =>
    LET dst == Fetched \div 16
        src == Fetched % 16
        val == IF src = ZA_REG_M THEN prev.mem[prev.r[ZA_REG_A]]
               ELSE ZS_getReg(prev, src)
    IN  /\ IF dst = ZA_REG_M
           THEN /\ state.mem = [prev.mem EXCEPT ![prev.r[ZA_REG_A]] = val]
                /\ state.r = prev.r
           ELSE /\ state.r = [prev.r EXCEPT ![dst] = val]
                /\ state.mem = prev.mem
        /\ state.halted = prev.halted

\* 'mov m s' (0x3B) at address 0 has run with Address = 111, OperandX = 3 and
\* OperandY = 40: memory[111] went from 46 to 43.
C9_Witness ==
  /\ Executed
  /\ prev.pc = 0
  /\ Fetched = 59
  /\ prev.r[ZA_REG_A] = 111
  /\ prev.mem[111] = 46
  /\ state.mem[111] = 43
  /\ state.r = prev.r

\* C10: a step that executes LoadImmediate stores the immediate (0..15) in
\* the destination's register slot, except that a destination of Memory
\* (code 3) stores it in memory[Address].
C10_LdiStores ==
  (Executed /\ IsLdiByte(Fetched)) =>
    LET dst == (Fetched \div 16) % 8
        imm == Fetched % 16
    IN  IF dst = ZA_REG_M
        THEN state.mem = [prev.mem EXCEPT ![prev.r[ZA_REG_A]] = imm]
        ELSE state.r = [prev.r EXCEPT ![dst] = imm]

\* What ZS_exec does on a LoadImmediate: the immediate goes to the register
\* slot of the destination code, slot 3 included, and memory stays as it was.
C10_LdiStoresSlot ==
  (Executed /\ IsLdiByte(Fetched)) =>
    LET dst == (Fetched \div 16) % 8
        imm == Fetched % 16
    IN  /\ state.r = [prev.r EXCEPT ![dst] = imm]
        /\ state.mem = prev.mem

\* The register table of the ISA manual: what a read of register reg gives
\* in the processor state st.
RegTable(st, reg) ==
  CASE reg = 0 -> st.r[0]
    [] reg = 1 -> st.r[1]
    [] reg = 2 -> st.r[2]
    [] reg = 3 -> st.mem[st.r[0]]
    [] reg = 4 -> st.r[4]
    [] reg = 5 -> st.r[5]
    [] reg = 6 -> 0
    [] reg = 7 -> st.pc
    [] reg = 8 -> st.b
    [] reg = 9 -> IF st.r[1] = 0 THEN 0 ELSE 1
    [] reg = 10 -> (st.r[0] % 16) * 16
    [] reg = 11 -> (st.r[4] + st.r[5]) % 256
    [] reg = 12 -> (st.r[4] - st.r[5]) % 256
    [] reg = 13 -> 0

\* The fetched byte is a JumpIfZero: low nibble 14 or 15, but not Halt or
\* Reset.  Its register code is the low bit, then the high nibble.
IsJezByte(b) == b < 128 /\ b % 16 >= 14 /\ b \notin {111, 127}

JezReg(b) == (b % 2) * 8 + b \div 16

\* The fetched byte is a JumpIfNotZero: high nibble 7, low nibble below 14.
IsJnzByte(b) == b < 128 /\ b \div 16 = 7 /\ b % 16 < 14

\* The fetched byte is a JumpIfNotZeroImmediate: high nibble 15.
IsJniByte(b) == b >= 240

\* The last call of ZS_exec took a jump.
JumpTaken ==
  \/ IsJezByte(Fetched) /\ prev.r[ZA_REG_C] = 0
  \/ (IsJnzByte(Fetched) \/ IsJniByte(Fetched)) /\ prev.r[ZA_REG_C] # 0

\* C11: after a conditional jump the program counter is the value read from
\* register r for JumpIfZero r with Conditional = 0 and for JumpIfNotZero r
\* with Conditional # 0, and the immediate i for JumpIfNotZeroImmediate i
\* with Conditional # 0; a taken jump gets no further increment, an untaken
\* one advances the program counter by 1; no register slot and no memory
\* cell changes.
C11_JumpTarget ==
  (Executed /\ (IsJezByte(Fetched) \/ IsJnzByte(Fetched) \/ IsJniByte(Fetched))) =>
    /\ state.pc = IF ~JumpTaken THEN (prev.pc + 1) % 256
                  ELSE IF IsJezByte(Fetched) THEN RegTable(prev, JezReg(Fetched))
                  ELSE IF IsJnzByte(Fetched) THEN RegTable(prev, Fetched % 16)
                  ELSE Fetched % 16
    /\ state.r = prev.r
    /\ state.mem = prev.mem

\* 'jnz s' (0x7B) at address 0 has run with Conditional = 148, OperandX = 3
\* and OperandY = 40: the program counter is 43.
C11_Witness ==
  /\ Executed
  /\ Fetched = 123
  /\ prev.pc = 0
  /\ prev.r[ZA_REG_C] = 148
  /\ state.pc = 43

\* C12: the halt flag becomes true only in a step whose fetched byte is
\* Halt (0x6F); that step leaves the program counter at the address of the
\* Halt byte and changes no register slot and no memory cell.  With the
\* program store rst, hlt, two steps from program counter 0 end with the
\* halt flag true and the program counter 1.
C12_HaltStep ==
  /\ (state.halted /\ ~prev.halted) => (lastCmd = "exec" /\ Fetched = 111)
  /\ (Executed /\ Fetched = 111) =>
       /\ state.halted
       /\ state.pc = prev.pc
       /\ state.r = prev.r
       /\ state.mem = prev.mem
  /\ (lastCmd = "exec" /\ steps = 2 /\ state.rom = ProgramRom(<<127, 111>>, 0)) =>
       (state.halted /\ state.pc = 1)

\* rst, hlt has run for two steps.
C12_Witness ==
  /\ Executed
  /\ steps = 2
  /\ state.rom = ProgramRom(<<127, 111>>, 0)
  /\ prev.pc = 1
  /\ state.halted
  /\ state.pc = 1

\* C13: once the halt flag is set, a call of ZS_exec changes nothing: the
\* halt flag stays true and the program counter, the register slots and the
\* memory stay as they are; the halt flag is cleared by nothing but ZS_new,
\* which starts the processor state afresh.
C13_HaltedIsTerminal ==
  [][/\ (state.halted /\ lastCmd' = "exec") => state' = state
     /\ (state.halted /\ ~state'.halted) => lastCmd' = "new"]_vars

\* ZS_exec has been called on a halted processor.
C13_Witness ==
  /\ lastCmd = "exec"
  /\ prev.halted
  /\ state.halted
  /\ steps = 3

\* C14: a step of a processor that is not halted, and that is neither a
\* taken jump nor a Halt, increases the program counter by 1 modulo 256: a
\* step at program counter 255 continues at program counter 0.
C14_PcAdvances ==
  (Executed /\ ~JumpTaken /\ Fetched # 111) =>
    /\ state.pc = (prev.pc + 1) % 256
    /\ prev.pc = 255 => state.pc = 0

\* 'ldi a 1' at address 255 has run.
C14_Witness ==
  /\ Executed
  /\ prev.pc = 255
  /\ Fetched = 129
  /\ state.pc = 0

\* C15: a step that executes Reset sets the register slots 0-6 to zero,
\* changes no memory cell and not the halt flag, and advances the program
\* counter by 1; a second Reset directly after it gives the same register
\* slots as the first.
C15_Reset ==
  /\ (Executed /\ Fetched = 127) =>
       /\ state.r = [k \in 0..6 |-> 0]
       /\ state.mem = prev.mem
       /\ state.halted = prev.halted
       /\ state.pc = (prev.pc + 1) % 256
  /\ (Executed /\ Fetched = 127 /\ steps = 2
        /\ state.rom = ProgramRom(<<127, 127>>, 0)) =>
       /\ prev.r = [k \in 0..6 |-> 0]
       /\ state.r = prev.r
       /\ state.mem = prev.mem

\* rst, rst has run for two steps from register slots that were not zero.
C15_Witness ==
  /\ Executed
  /\ steps = 2
  /\ state.rom = ProgramRom(<<127, 127>>, 0)
  /\ prev.pc = 1
  /\ state.pc = 2
  /\ state.r = [k \in 0..6 |-> 0]
  /\ state.mem[0] = 37

\* C16: register reads follow the register table: Sum reads (OperandX +
\* OperandY) mod 256, Difference (OperandX - OperandY) mod 256, LeftShift
\* (Address & 0xF) << 4, Jump 1 if Conditional # 0 else 0, ProgramCounter
\* the program counter, Buttons the value supplied from outside, Number and
\* Zero 0, whatever was last written to Number.  The reads are those of
\* every reachable state, and those a Move has made.
C16_RegisterReads ==
  /\ \A reg \in 6..13 : ZS_getReg(state, reg) = RegTable(state, reg)
  /\ (Executed /\ IsMoveByte(Fetched) /\ Fetched % 16 >= 6
        /\ Fetched \div 16 # ZA_REG_M) =>
       state.r[Fetched \div 16] = RegTable(prev, Fetched % 16)

\* 'mov n n' (0x66) has run after 'mov n y' put 40 in the slot of Number:
\* the read gave 0.
C16_Witness ==
  /\ Executed
  /\ Fetched = 102
  /\ prev.r[ZA_REG_N] = 40
  /\ state.r[ZA_REG_N] = 0

\* C17: ZS_exec has no error outcome: whatever the program store and the
\* processor state, a step reaches no failing assert, every index of the
\* register storage it uses is within 0..6 and every register code it reads
\* is within 0..13.
C17_NoErrorOutcome ==
  /\ ~ZS_execAsserts(state)
  /\ \A reg \in ZS_execReads(state) : ZS_getRegAsserts(reg) /\ reg \in 0..13
  /\ ZS_execSlots(state) \subseteq 0..6
  /\ state.pc \in 0..255
  /\ steps < MaxSteps => ENABLED Step

\* 'jnz z' (0x7D), which reads register code 13, has run with Conditional
\* not zero.
C17_Witness ==
  /\ Executed
  /\ Fetched = 125
  /\ prev.r[ZA_REG_C] # 0
  /\ state.pc = 0
  /\ ZS_execReads(prev) = {13}
  /\ ZS_execSlots(prev) = {ZA_REG_C}

(***************************************************************************)
(* The tokenizer on one line: ZC_readToken called token after token, or    *)
(* ZC_tokenize called once, in either revision.                            *)
(***************************************************************************)
\* The lengths of the tokens tried.
TokenLens == {1, 6, 7, 8}

\* A token of n characters, and what ZC_Token_T.str holds of it.
TokenText(n) == Text(SubSeq(<<"a", "b", "c", "d", "e", "f", "g", "h">>, 1, n))

TokenStr(n) == [k \in 1..7 |-> IF k <= n /\ k <= 6 THEN TokenText(n)[k] ELSE 0]

\* What follows the last token of the line: the end of the input, a
\* newline, white space, a comment.
Endings ==
  << <<>>, <<"\n">>, <<" ">>, <<" ", "\n">>, <<";", "c", "\n">>,
     <<" ", ";", "c">>, <<" ", ";", "c", "\n">> >>

RECURSIVE JoinTokens(_)
JoinTokens(lens) ==
  IF lens = <<>> THEN <<>>
  ELSE TokenText(Head(lens)) \o (IF Len(lens) > 1 THEN <<32>> ELSE <<>>)
         \o JoinTokens(Tail(lens))

LineText(shape) == JoinTokens(shape.lens) \o Text(Endings[shape.end])

InitTok ==
  /\ tkRev \in Revisions
  /\ tkShape \in {[lens |-> l, end |-> e] :
                    l \in UNION {[1..n -> TokenLens] : n \in 0..MaxLineTokens},
                    e \in 1..Len(Endings)}
  /\ tkS = [buf |-> LineText(tkShape), pos |-> 0]
  /\ tkToks = <<>>
  /\ tkLine = NoLine
  /\ IdleCodec /\ IdleImm /\ IdleAsm /\ IdleVm /\ IdleTools

\* One call of ZC_readToken, after the calls before it set no error.
ReadToken ==
  /\ ~tkLine.done
  /\ Len(tkToks) < Len(tkShape.lens)
  /\ tkToks # <<>> => tkToks[Len(tkToks)].err = ZC_ERR_OK
  /\ LET tr == IF tkRev = "zasmc.c" THEN ZC_readToken_zasmc(tkS) ELSE ZC_readToken(tkS)
     IN  /\ tkToks' = Append(tkToks, [token |-> tr.token, err |-> tr.err])
         /\ tkS' = tr.stream
  /\ UNCHANGED <<tkRev, tkShape, tkLine, codecVars, immVars, asmVars, vmVars, toolVars>>

\* One call of ZC_tokenize at the start of the line.
Tokenize ==
  /\ ~tkLine.done
  /\ tkToks = <<>>
  /\ LET tl == IF tkRev = "zasmc.c" THEN ZC_tokenize_zasmc(tkS) ELSE ZC_tokenize(tkS)
     IN  /\ tkLine' = [done |-> TRUE, line |-> tl.line, err |-> tl.err]
         /\ tkS' = tl.stream
  /\ UNCHANGED <<tkRev, tkShape, tkToks, codecVars, immVars, asmVars, vmVars, toolVars>>

NextTok == ReadToken \/ Tokenize

SpecTok == InitTok /\ [][NextTok]_vars

\* C18: ZC_readToken accepts a token of exactly 6 characters without a
\* length error and rejects every token of 7 or more characters with
\* ZC_ERR_TOKEN_LEN, at whatever position on the line the token stands.
C18_TokenLength ==
  \A k \in 1..Len(tkToks) :
    LET n == tkShape.lens[k]
        res == tkToks[k]
    IN  /\ n <= 6 => (res.err = ZC_ERR_OK /\ res.token.str = TokenStr(n))
        /\ n >= 7 => res.err = ZC_ERR_TOKEN_LEN

\* The line "abcdef abcdef abcdef abcdefg": the third call accepted the
\* six characters, the fourth call set the token-length error.
C18_Witness ==
  /\ tkShape.lens = <<6, 6, 6, 7>>
  /\ Len(tkToks) = 4
  /\ tkToks[3].err = ZC_ERR_OK
  /\ tkToks[3].token.str = TokenStr(6)
  /\ tkToks[4].err = ZC_ERR_TOKEN_LEN

\* C19: ZC_tokenize reports ZC_ERR_LINE_LEN exactly when the line holds a
\* fourth token; a line of three tokens followed only by white space, a
\* comment, a newline or the end of the input is returned without error and
\* with the end-of-line flag on its third token.  The lines are those whose
\* tokens are no longer than 6 characters.
C19_LineLength ==
  (tkLine.done /\ \A k \in 1..Len(tkShape.lens) : tkShape.lens[k] <= 6) =>
    /\ tkLine.err = ZC_ERR_LINE_LEN <=> Len(tkShape.lens) >= 4
    /\ Len(tkShape.lens) = 3 => (tkLine.err = ZC_ERR_OK /\ tkLine.line[3].eol)

\* C19 for the revision that is not the one of src/src/zasmc.c.
C19_LineLengthOtherRevision == tkRev = "part_005" => C19_LineLength

\* A line of the source holds a comment.
HasComment == \E k \in 1..Len(srcLines) : srcLines[k] \in {9, 11}

\* C20: a ';' starts a comment that is consumed only through the end of its
\* own line: the instruction written before the ';' on the same line is
\* still assembled, and so are the lines after the comment; "rst ; note",
\* newline, "hlt", newline compiles to 0x7F, 0x6F.  The sources are those of
\* well-formed lines ended by newlines, without binary immediates.
C20_Comments ==
  (cpc # "run" /\ srcNl /\ CleanUpTo(Len(srcLines)) /\ NoBinaryLine /\ HasComment) =>
    /\ cpc = "done"
    /\ err = ZC_ERR_OK
    /\ outS = ExpectedBytes(srcLines)
    /\ srcLines = <<9, 2>> => outS = <<127, 111>>

\* C20 for the revision that is not the one of src/src/zasmc.c.
C20_CommentsOtherRevision == rev = "part_005" => C20_Comments

====
